---- MODULE Spec2Model ----
(***************************************************************************)
(* A model of the email de-identification core of email-deid-tool:         *)
(*   - the annotation stores (Annotation records, DraftAnnotation lists,   *)
(*     QADraftReview lists), the handlers that create spans and the two    *)
(*     repair commands (trim_annotation_whitespace, fix_utf16_offsets);    *)
(*   - core.section_extractor and core.section_reassembler, together with  *)
(*     the parts of Python's email package they call;                      *)
(*   - core.eml_normalizer and its raw-to-normalized offset map;           *)
(*   - the migration of flat offsets to sections (annotations 0003);       *)
(*   - the repair and verification commands run over a corpus of jobs.     *)
(* Python strings are TLA+ strings; a character is a string of length 1.   *)
(***************************************************************************)
EXTENDS Integers, Sequences, FiniteSets, TLC

VARIABLES
    job,          \* the job: its status and the section contents of its .eml
    annotations,  \* Annotation records, in iteration order
    draft,        \* DraftAnnotation.annotations of the job (a JSON list)
    qa_draft,     \* QADraftReview.data["annotations"] of the job (a JSON list)
    output,       \* what the last handler or command run reported
    eml_content,     \* Job.eml_content of the job that is exported
    sections,        \* the sections the raw-content view answered with, or None
    latest_version,  \* the annotations of the job's latest version, or None
    exported         \* what ExportViewSet._deidentify_job returned or raised, or None

store_vars == <<job, annotations, draft, qa_draft, output>>
mail_vars == <<eml_content, sections, latest_version, exported>>
vars == <<job, annotations, draft, qa_draft, output,
          eml_content, sections, latest_version, exported>>

(***************************************************************************)
(* Bounds of the model.                                                    *)
(***************************************************************************)
MaxSpans == 2        \* spans held by the three stores together
MaxAnns == 2         \* annotations of the exported job's latest version

\* PlatformSetting "min_annotation_length" when it is not set.
min_annotation_length == 1

(***************************************************************************)
(* Python built-ins.                                                       *)
(***************************************************************************)
\* Optional values: None is the empty tuple, a value v is the tuple <<v>>
\* or, for a tuple result, the tuple itself.
None == << >>

Char(s, i) == SubSeq(s, i, i)

\* The characters of the model are the printable ASCII characters, tab,
\* line feed, carriage return and form feed, except that three glyphs stand
\* for characters outside ASCII: Astral for one character above U+FFFF
\* (U+1F600: one Python character, two UTF-16 code units), EAcute for
\* U+00E9 and Replacement for U+FFFD, the character that decoding with
\* errors="replace" produces.  The grave accent (96) is not used.
Astral == "|"
EAcute == "^"
Replacement == "~"

\* Code points 32..95 and 97..126 in order; the three glyphs above keep
\* their places.
PrintableLow ==
    " !\"#$%&'()*+,-./0123456789:;<=>?@ABCDEFGHIJKLMNOPQRSTUVWXYZ[\\]^_"
PrintableHigh == "abcdefghijklmnopqrstuvwxyz{|}~"

ord(ch) ==
    CASE ch = Astral -> 128512
      [] ch = EAcute -> 233
      [] ch = Replacement -> 65533
      [] ch = "\t" -> 9
      [] ch = "\n" -> 10
      [] ch = "\f" -> 12
      [] ch = "\r" -> 13
      [] \E i \in 1..Len(PrintableLow) : Char(PrintableLow, i) = ch ->
            31 + CHOOSE i \in 1..Len(PrintableLow) : Char(PrintableLow, i) = ch
      [] OTHER ->
            96 + CHOOSE i \in 1..Len(PrintableHigh) : Char(PrintableHigh, i) = ch

chr(n) ==
    CASE n = 128512 -> Astral
      [] n = 233 -> EAcute
      [] n = 65533 -> Replacement
      [] n = 9 -> "\t"
      [] n = 10 -> "\n"
      [] n = 12 -> "\f"
      [] n = 13 -> "\r"
      [] n >= 32 /\ n <= 95 -> Char(PrintableLow, n - 31)
      [] OTHER -> Char(PrintableHigh, n - 96)

\* str.isspace() for one character, over the characters of the model.
IsSpace(ch) == ch \in {" ", "\t", "\n", "\r", "\f"}

Max(a, b) == IF a > b THEN a ELSE b

PySlice(s, a, b) ==
    LET
        \* s[a:b] with Python's clamping of negative and oversized indexes.
        PyIndex(n, i) == IF i < 0 THEN Max(n + i, 0) ELSE IF i < n THEN i ELSE n
        Slice(lo, hi) == IF lo >= hi THEN "" ELSE SubSeq(s, lo + 1, hi)
    IN  Slice(PyIndex(Len(s), a), PyIndex(Len(s), b))

RECURSIVE lstrip(_)
lstrip(s) ==
    IF Len(s) > 0 /\ IsSpace(Char(s, 1)) THEN lstrip(SubSeq(s, 2, Len(s))) ELSE s

RECURSIVE rstrip(_)
rstrip(s) ==
    IF Len(s) > 0 /\ IsSpace(Char(s, Len(s)))
    THEN rstrip(SubSeq(s, 1, Len(s) - 1)) ELSE s

strip(s) == rstrip(lstrip(s))

RECURSIVE rstrip_chars(_, _)
rstrip_chars(s, chars) ==
    IF Len(s) > 0 /\ Char(s, Len(s)) \in chars
    THEN rstrip_chars(PySlice(s, 0, Len(s) - 1), chars) ELSE s

startswith(s, prefix) == PySlice(s, 0, Len(prefix)) = prefix

\* s.find(sub, i): the lowest index >= i where sub occurs, or -1.
find(s, sub) ==
    LET Lowest(hits) ==
            IF hits = {} THEN -1 ELSE CHOOSE k \in hits : \A h \in hits : k <= h
    IN  Lowest({ k \in 0..(Len(s) - Len(sub)) : SubSeq(s, k + 1, k + Len(sub)) = sub })

\* sub in s
contains(s, sub) == find(s, sub) # -1

\* s.count(sub): occurrences that do not overlap, found left to right.
RECURSIVE count(_, _)
count(s, sub) ==
    LET Rest(i) == IF i = -1 THEN 0
                   ELSE 1 + count(PySlice(s, i + Len(sub), Len(s)), sub)
    IN  Rest(find(s, sub))

\* s.replace(old, new)
RECURSIVE replace(_, _, _)
replace(s, old, new) ==
    LET Rest(i) ==
            IF i = -1 THEN s
            ELSE PySlice(s, 0, i) \o new
                 \o replace(PySlice(s, i + Len(old), Len(s)), old, new)
    IN  Rest(find(s, old))

\* s.split(sep): a sequence of strings.
RECURSIVE split(_, _)
split(s, sep) ==
    LET Rest(i) ==
            IF i = -1 THEN <<s>>
            ELSE <<PySlice(s, 0, i)>> \o split(PySlice(s, i + Len(sep), Len(s)), sep)
    IN  Rest(find(s, sep))

\* s.split(sep, 1)
split1(s, sep) ==
    LET Parts(i) ==
            IF i = -1 THEN <<s>>
            ELSE <<PySlice(s, 0, i), PySlice(s, i + Len(sep), Len(s))>>
    IN  Parts(find(s, sep))

\* sep.join(parts)
RECURSIVE join(_, _)
join(sep, parts) ==
    IF Len(parts) = 0 THEN ""
    ELSE IF Len(parts) = 1 THEN parts[1]
    ELSE parts[1] \o sep \o join(sep, Tail(parts))

Upper == "ABCDEFGHIJKLMNOPQRSTUVWXYZ"
Lower == "abcdefghijklmnopqrstuvwxyz"

lower_char(ch) ==
    IF \E i \in 1..26 : Char(Upper, i) = ch
    THEN Char(Lower, CHOOSE i \in 1..26 : Char(Upper, i) = ch)
    ELSE ch

upper_char(ch) ==
    IF \E i \in 1..26 : Char(Lower, i) = ch
    THEN Char(Upper, CHOOSE i \in 1..26 : Char(Lower, i) = ch)
    ELSE ch

\* s.lower() and s.upper(), one half of the string after the other.
RECURSIVE lower(_)
lower(s) ==
    IF Len(s) <= 1 THEN lower_char(s)
    ELSE lower(PySlice(s, 0, Len(s) \div 2)) \o lower(PySlice(s, Len(s) \div 2, Len(s)))

(***************************************************************************)
(* bytes, codecs, base64 and quopri.  A bytes object is a sequence of       *)
(* integers 0..255.                                                         *)
(***************************************************************************)

\* b.decode("ascii") of bytes that are all ASCII.
RECURSIVE ascii_decode(_)
ascii_decode(b) ==
    LET Half(bb) == Len(bb) \div 2
    IN
    IF Len(b) = 0 THEN ""
    ELSE IF Len(b) = 1 THEN chr(b[1])
    ELSE ascii_decode(SubSeq(b, 1, Half(b)))
         \o ascii_decode(SubSeq(b, Half(b) + 1, Len(b)))

HexDigits == "0123456789ABCDEF"
hex2(n) == Char(HexDigits, (n \div 16) + 1) \o Char(HexDigits, (n % 16) + 1)

\* s.encode("ascii"), falling back to s.encode("raw-unicode-escape"):
\* Message.get_payload(decode=True) of a str payload.
RECURSIVE raw_unicode_escape(_)
raw_unicode_escape(s) ==
    LET
        \* The bytes of "\uXXXX" or "\UXXXXXXXX", as raw-unicode-escape writes a
        \* character above U+00FF.
        unicode_escape(n) ==
            LET Escape(digits) ==
                    <<92, IF n < 65536 THEN 117 ELSE 85>> \o
                    [i \in 1..Len(digits) |-> ord(lower_char(Char(digits, i)))]
            IN  Escape(IF n < 65536 THEN hex2(n \div 256) \o hex2(n % 256)
                       ELSE hex2(0) \o hex2(n \div 65536)
                            \o hex2((n \div 256) % 256) \o hex2(n % 256))
    IN
    IF s = "" THEN << >>
    ELSE IF Len(s) = 1
         THEN LET Bytes(n) == IF n < 256 THEN <<n>> ELSE unicode_escape(n)
              IN  Bytes(ord(s))
    ELSE raw_unicode_escape(PySlice(s, 0, Len(s) \div 2))
         \o raw_unicode_escape(PySlice(s, Len(s) \div 2, Len(s)))

\* The charsets of the model: UTF-8 and ASCII under the names Python knows
\* them by.  A message of the model names one of these, or a charset that
\* Python does not know (LookupError).
IsUtf8(charset) == charset \in {"utf-8", "utf8"}
IsAscii(charset) == charset \in {"us-ascii", "ascii"}
KnownCharset(charset) == IsUtf8(charset) \/ IsAscii(charset)

\* text.encode(charset, errors="replace") for a known charset.
RECURSIVE encode(_, _)
encode(text, charset) ==
    LET
        \* One character in UTF-8.
        utf8_bytes(n) ==
            IF n < 128 THEN <<n>>
            ELSE IF n < 2048 THEN <<192 + (n \div 64), 128 + (n % 64)>>
            ELSE IF n < 65536
                 THEN <<224 + (n \div 4096), 128 + ((n \div 64) % 64), 128 + (n % 64)>>
            ELSE <<240 + (n \div 262144), 128 + ((n \div 4096) % 64),
                   128 + ((n \div 64) % 64), 128 + (n % 64)>>
    IN
    IF text = "" THEN << >>
    ELSE IF Len(text) = 1
         THEN LET Bytes(n) == IF IsUtf8(charset) THEN utf8_bytes(n)
                              ELSE IF n < 128 THEN <<n>> ELSE <<63>>
              IN  Bytes(ord(text))
    ELSE encode(PySlice(text, 0, Len(text) \div 2), charset)
         \o encode(PySlice(text, Len(text) \div 2, Len(text)), charset)

decode(b, charset) ==
    LET
        \* b.decode(charset, errors="replace") for a known charset, from byte i.
        RECURSIVE decode_from(_, _, _)
        decode_from(bb_, charset_, i) ==
            LET utf8_value(bb, ii, need) ==
                    IF need = 1 THEN (bb[ii] - 192) * 64 + (bb[ii + 1] - 128)
                    ELSE IF need = 2
                         THEN (bb[ii] - 224) * 4096 + (bb[ii + 1] - 128) * 64 + (bb[ii + 2] - 128)
                    ELSE (bb[ii] - 240) * 262144 + (bb[ii + 1] - 128) * 4096
                         + (bb[ii + 2] - 128) * 64 + (bb[ii + 3] - 128)
                \* The continuation bytes that follow position i, at most `need`.
                RECURSIVE utf8_have(_, _, _)
                utf8_have(bb, ii, need) ==
                    IF need > 0 /\ ii + 1 <= Len(bb) /\ bb[ii + 1] >= 128 /\ bb[ii + 1] < 192
                    THEN 1 + utf8_have(bb, ii + 1, need - 1) ELSE 0
                \* How many continuation bytes the lead byte n announces (-1: not a lead).
                utf8_need(n) ==
                    IF n < 128 THEN 0
                    ELSE IF n >= 194 /\ n < 224 THEN 1
                    ELSE IF n >= 224 /\ n < 240 THEN 2
                    ELSE IF n >= 240 /\ n < 245 THEN 3
                    ELSE -1
            IN
            IF i > Len(bb_) THEN ""
            ELSE IF bb_[i] < 128 THEN chr(bb_[i]) \o decode_from(bb_, charset_, i + 1)
            ELSE IF IsAscii(charset_) THEN Replacement \o decode_from(bb_, charset_, i + 1)
            ELSE LET Character(need, have) ==
                        IF need = -1 THEN Replacement \o decode_from(bb_, charset_, i + 1)
                        ELSE IF have < need
                             THEN Replacement \o decode_from(bb_, charset_, i + 1 + have)
                        ELSE chr(utf8_value(bb_, i, need))
                             \o decode_from(bb_, charset_, i + 1 + need)
                 IN  Character(utf8_need(bb_[i]), utf8_have(bb_, i, utf8_need(bb_[i])))
    IN  decode_from(b, charset, 1)

Base64Alphabet ==
    "ABCDEFGHIJKLMNOPQRSTUVWXYZabcdefghijklmnopqrstuvwxyz0123456789+/"

\* base64.encodebytes(b).decode("ascii"): lines of 57 bytes, each ended by
\* a newline.
RECURSIVE encodebytes(_)
encodebytes(b) ==
    LET
        \* binascii.b2a_base64 without the newline.
        RECURSIVE b2a_base64(_)
        b2a_base64(bb) ==
            LET b64_char(n) == Char(Base64Alphabet, n + 1)
            IN
            IF Len(bb) = 0 THEN ""
            ELSE IF Len(bb) = 1
                 THEN b64_char(bb[1] \div 4) \o b64_char((bb[1] % 4) * 16) \o "=="
            ELSE IF Len(bb) = 2
                 THEN b64_char(bb[1] \div 4) \o b64_char((bb[1] % 4) * 16 + (bb[2] \div 16))
                      \o b64_char((bb[2] % 16) * 4) \o "="
            ELSE b64_char(bb[1] \div 4) \o b64_char((bb[1] % 4) * 16 + (bb[2] \div 16))
                 \o b64_char((bb[2] % 16) * 4 + (bb[3] \div 64)) \o b64_char(bb[3] % 64)
                 \o b2a_base64(SubSeq(bb, 4, Len(bb)))
    IN
    IF Len(b) = 0 THEN ""
    ELSE IF Len(b) <= 57 THEN b2a_base64(b) \o "\n"
    ELSE b2a_base64(SubSeq(b, 1, 57)) \o "\n" \o encodebytes(SubSeq(b, 58, Len(b)))

\* base64.b64decode of well-formed base64 text (whole quanta, padded).
RECURSIVE b64decode(_)
b64decode(s) ==
    LET b64_value(ch) == (CHOOSE i \in 1..64 : Char(Base64Alphabet, i) = ch) - 1
    IN
    IF Len(s) < 4 THEN << >>
    ELSE LET Quantum(a, b, c, d) ==
                IF Char(s, 3) = "=" THEN <<a * 4 + (b \div 16)>>
                ELSE IF Char(s, 4) = "="
                     THEN <<a * 4 + (b \div 16), (b % 16) * 16 + (c \div 4)>>
                ELSE <<a * 4 + (b \div 16), (b % 16) * 16 + (c \div 4), (c % 4) * 64 + d>>
                     \o b64decode(PySlice(s, 4, Len(s)))
         IN  Quantum(b64_value(Char(s, 1)), b64_value(Char(s, 2)),
                     IF Char(s, 3) = "=" THEN 0 ELSE b64_value(Char(s, 3)),
                     IF Char(s, 4) = "=" THEN 0 ELSE b64_value(Char(s, 4)))

\* b"".join(bpayload.splitlines()): the payload bytes without line ends.

\* email._encoded_words.decode_b(b"".join(bpayload.splitlines())), for a
\* payload that is well-formed base64.
decode_b(bpayload) ==
    b64decode(ascii_decode(SelectSeq(bpayload, LAMBDA n : n \notin {10, 13})))

decodestring(b) ==
    LET
        \* quopri.decodestring (binascii.a2b_qp): =XX is a byte, "=" before a line
        \* end is a soft line break ("=" before a carriage return drops the data up
        \* to the next newline), "==" is one "=", any other "=" stands for itself.
        RECURSIVE a2b_qp_from(_, _)
        a2b_qp_from(bb, i) ==
            LET IsHexByte(n) ==
                    /\ n < 128
                    /\ n >= 48
                    /\ \E ii \in 1..16 : Char(HexDigits, ii) = upper_char(chr(n))
                hex_value(ch) == (CHOOSE ii \in 1..16 : Char(HexDigits, ii) = upper_char(ch)) - 1
            IN
            IF i > Len(bb) THEN << >>
            ELSE IF bb[i] # 61 THEN <<bb[i]>> \o a2b_qp_from(bb, i + 1)
            ELSE IF i = Len(bb) THEN << >>
            ELSE IF bb[i + 1] = 13
                 THEN LET newlines == { j \in (i + 1)..Len(bb) : bb[j] = 10 }
                      IN  IF newlines = {} THEN << >>
                          ELSE a2b_qp_from(bb, 1 + CHOOSE j \in newlines :
                                                    \A k \in newlines : j <= k)
            ELSE IF bb[i + 1] = 10 THEN a2b_qp_from(bb, i + 2)
            ELSE IF bb[i + 1] = 61 THEN <<61>> \o a2b_qp_from(bb, i + 2)
            ELSE IF i + 2 <= Len(bb) /\ IsHexByte(bb[i + 1]) /\ IsHexByte(bb[i + 2])
                 THEN <<hex_value(chr(bb[i + 1])) * 16 + hex_value(chr(bb[i + 2]))>>
                      \o a2b_qp_from(bb, i + 3)
            ELSE <<61>> \o a2b_qp_from(bb, i + 1)
    IN  a2b_qp_from(b, 1)

encodestring(b) ==
    LET
        \* quopri.encodestring(b).decode("ascii") (binascii.b2a_qp, text mode,
        \* quotetabs off) for lines of at most 76 characters: no soft line breaks.
        RECURSIVE b2a_qp_from(_, _)
        b2a_qp_from(bb_, i) ==
            LET
                \* Is byte i of b followed by a line end or by the end of the data?
                AtLineEnd(bb, ii) ==
                    \/ ii = Len(bb)
                    \/ bb[ii + 1] = 10
                    \/ (bb[ii + 1] = 13 /\ ii + 2 <= Len(bb) /\ bb[ii + 2] = 10)
            IN
            IF i > Len(bb_) THEN ""
            ELSE LET Quoted(n) ==
                        \/ n = 61
                        \/ n > 126
                        \/ (n < 32 /\ n \notin {9, 10, 13})
                        \/ (n \in {9, 32} /\ AtLineEnd(bb_, i))
                        \/ (n = 46 /\ (i = 1 \/ bb_[i - 1] = 10) /\ AtLineEnd(bb_, i))
                 IN  (IF Quoted(bb_[i]) THEN "=" \o hex2(bb_[i]) ELSE chr(bb_[i]))
                     \o b2a_qp_from(bb_, i + 1)
    IN  b2a_qp_from(b, 1)

(***************************************************************************)
(* Python's email package (policy compat32), as far as section_extractor   *)
(* and section_reassembler use it.  A Message is a record                   *)
(*   [headers  |-> sequence of <<name, value>>,                             *)
(*    kind     |-> "str", "bytes" or "list",                                *)
(*    payload  |-> a string, a bytes object or a sequence of Messages,      *)
(*    preamble |-> None or <<string>>, epilogue |-> None or <<string>>].    *)
(* Kind "bytes" is a str payload that carries surrogate escapes: what       *)
(* set_payload(bytes) stores when some byte is not ASCII; the payload field *)
(* then holds the bytes the surrogates stand for.  The model leaves out     *)
(* envelope ("From ") lines and message/* parts.                            *)
(***************************************************************************)

\* s.splitlines(keepends=True)
RECURSIVE splitlines_keepends(_)
splitlines_keepends(s) ==
    LET
        \* The length of the first line of s, line end included ("\r\n", "\r", "\n").
        first_line_len(ss) ==
            LET Length(n, r) ==
                    IF n = -1 /\ r = -1 THEN Len(ss)
                    ELSE IF r # -1 /\ (n = -1 \/ r < n)
                         THEN (IF n = r + 1 THEN r + 2 ELSE r + 1)
                    ELSE n + 1
            IN  Length(find(ss, "\n"), find(ss, "\r"))
    IN
    IF s = "" THEN << >>
    ELSE LET Split(k) ==
                <<PySlice(s, 0, k)>> \o splitlines_keepends(PySlice(s, k, Len(s)))
         IN  Split(first_line_len(s))

\* NLCRE_eol: s without one trailing line end.
strip_eol(s) ==
    IF Len(s) >= 2 /\ PySlice(s, Len(s) - 2, Len(s)) = "\r\n" THEN PySlice(s, 0, Len(s) - 2)
    ELSE IF Len(s) >= 1 /\ Char(s, Len(s)) \in {"\n", "\r"} THEN PySlice(s, 0, Len(s) - 1)
    ELSE s

\* NLCRE.match(line): the line starts with a line end.

\* boundaryre.match(line) for the separator "--" + boundary.
\* A search for the boundary string at the start of a line, whatever
\* follows it.
StartsWithSeparator(line, separator) == startswith(line, separator)

IsBoundaryLine(line, separator) ==
    LET Matches(core) == core = separator \/ core = separator \o "--"
    IN  Matches(rstrip_chars(strip_eol(line), {" ", "\t"}))

\* BufferedSubFile.readline returns "": the input is used up, or the line
\* matches a boundary of an enclosing multipart.
AtEof(lines, k, eofstack) ==
    k > Len(lines) \/ \E separator \in eofstack : IsBoundaryLine(lines[k], separator)

\* FeedParser._parse_headers from line k on; lastvalue holds the lines of
\* the header being collected.
RECURSIVE _parse_headers(_, _, _)
_parse_headers(lines, k, lastvalue) ==
    LET
        \* compat32.header_source_parse
        header_source_parse(sourcelines) ==
            LET
                \* s.lstrip(chars) and s.rstrip(chars) for a set of characters.
                RECURSIVE lstrip_chars(_, _)
                lstrip_chars(s, chars) ==
                    IF Len(s) > 0 /\ Char(s, 1) \in chars
                    THEN lstrip_chars(PySlice(s, 1, Len(s)), chars) ELSE s
                Field(nv) ==
                    <<nv[1], rstrip_chars(lstrip_chars(nv[2], {" ", "\t"})
                                          \o join("", Tail(sourcelines)), {"\r", "\n"})>>
            IN  Field(split1(sourcelines[1], ":"))
        Parsed(done) ==
            IF k > Len(lines) THEN done
            ELSE IF Char(lines[k], 1) \in {" ", "\t"}
                 THEN IF lastvalue = << >>
                      THEN _parse_headers(lines, k + 1, lastvalue)
                      ELSE _parse_headers(lines, k + 1, Append(lastvalue, lines[k]))
            ELSE IF find(lines[k], ":") = 0
                 THEN done \o _parse_headers(lines, k + 1, << >>)
            ELSE done \o _parse_headers(lines, k + 1, <<lines[k]>>)
    IN  Parsed(IF lastvalue = << >> THEN << >> ELSE <<header_source_parse(lastvalue)>>)

\* Message.get(name) / msg[name]: the first field of that name, or None.
get(msg, name) ==
    LET First(hits) == IF Len(hits) = 0 THEN None ELSE <<hits[1][2]>>
        Named(lname) == SelectSeq(msg.headers, LAMBDA h : lower(h[1]) = lname)
    IN  First(Named(lower(name)))

\* name in msg
has_header(msg, name) == get(msg, name) # None

\* Message.replace_header: the first field of that name gets the value and
\* keeps its name and its place.  Callers check has_header first or catch
\* KeyError.
replace_header(msg, name, value) ==
    LET Named(lname) ==
            CHOOSE i \in 1..Len(msg.headers) :
                /\ lower(msg.headers[i][1]) = lname
                /\ \A k \in 1..(i - 1) : lower(msg.headers[k][1]) # lname
        Replaced(i) == [msg EXCEPT !.headers[i] = <<msg.headers[i][1], value>>]
    IN  Replaced(Named(lower(name)))

\* msg[name] = value: the field is appended.
set_item(msg, name, value) ==
    [msg EXCEPT !.headers = Append(msg.headers, <<name, value>>)]

\* utils.unquote
unquote(v) ==
    IF Len(v) > 1 /\ Char(v, 1) = "\"" /\ Char(v, Len(v)) = "\""
    THEN replace(replace(PySlice(v, 1, Len(v) - 1), "\\\\", "\\"), "\\\"", "\"")
    ELSE IF Len(v) > 1 /\ Char(v, 1) = "<" /\ Char(v, Len(v)) = ">"
         THEN PySlice(v, 1, Len(v) - 1)
    ELSE v

\* utils.quote
quote(v) == replace(replace(v, "\\", "\\\\"), "\"", "\\\"")

\* message._parseparam and Message._get_params_preserve for a field value
\* without quoted semicolons: <<name, value>> pairs, the first being the
\* content type itself.
get_params(value) ==
    LET Param(item, nv) ==
            IF Len(nv) = 1 THEN <<strip(item), "">>
            ELSE <<lower(strip(nv[1])), strip(nv[2])>>
        Params(items) ==
            [i \in 1..Len(items) |-> Param(items[i], split1(items[i], "="))]
    IN  Params(split(value, ";"))

\* Message.get_param(param, header="content-type"), unquoted.
get_param(msg, param) ==
    LET First(hits) == IF Len(hits) = 0 THEN None ELSE <<unquote(hits[1][2])>>
        Param(value) ==
            IF value = None THEN None
            ELSE First(SelectSeq(Tail(get_params(value[1])),
                                 LAMBDA nv : lower(nv[1]) = param))
    IN  Param(get(msg, "content-type"))

\* Message.get_content_type
get_content_type(msg) ==
    LET Checked(ctype) == IF count(ctype, "/") # 1 THEN "text/plain" ELSE ctype
        Type(value) ==
            IF value = None THEN "text/plain"
            ELSE Checked(lower(strip(split1(value[1], ";")[1])))
    IN  Type(get(msg, "content-type"))

get_content_maintype(msg) == split(get_content_type(msg), "/")[1]

\* Message.get_content_charset
get_content_charset(msg) ==
    LET Lowered(charset) == IF charset = None THEN None ELSE <<lower(charset[1])>>
    IN  Lowered(get_param(msg, "charset"))

\* Message.get_boundary
get_boundary(msg) ==
    LET Stripped(boundary) == IF boundary = None THEN None ELSE <<rstrip(boundary[1])>>
    IN  Stripped(get_param(msg, "boundary"))

\* Message.is_multipart
is_multipart(msg) == msg.kind = "list"

\* The first line at or after k where the input ends.
RECURSIVE input_end(_, _, _)
input_end(lines, k, eofstack) ==
    IF AtEof(lines, k, eofstack) THEN k ELSE input_end(lines, k + 1, eofstack)

Lines(lines, from, to) == IF from > to THEN << >> ELSE SubSeq(lines, from, to)

\* FeedParser._parsegen, from line k, below the boundaries of eofstack:
\* [msg |-> the message, next |-> the first line it did not read].
RECURSIVE _parsegen(_, _, _)
RECURSIVE multipart_loop(_, _, _, _, _, _, _)
_parsegen(lines, k, eofstack) ==
    LET
        \* The first line at or after k that ends the header block: one that is
        \* no header line, or the end of the input.
        RECURSIVE header_end(_, _, _)
        header_end(lines_, kk_, eofstack_) ==
            LET
                \* headerRE.match(line): a field name and a colon, or a continuation line.
                IsHeaderLine(line) ==
                    \/ Len(line) > 0 /\ Char(line, 1) \in {" ", "\t"}
                    \/ LET InRange(n) == (n >= 33 /\ n <= 57) \/ (n >= 59 /\ n <= 126)
                           NameBefore(i) == i # -1 /\ \A kk \in 1..i : InRange(ord(Char(line, kk)))
                       IN  NameBefore(find(line, ":"))
            IN
            IF AtEof(lines_, kk_, eofstack_) \/ ~IsHeaderLine(lines_[kk_]) THEN kk_
            ELSE header_end(lines_, kk_ + 1, eofstack_)
        \* the lines from `body` to the end of the input are the payload
        Rest(cur, body, stop) ==
            [msg |-> [cur EXCEPT !.payload = join("", Lines(lines, body, stop - 1))],
             next |-> stop]
        Body(cur, body, boundary) ==
            IF get_content_maintype(cur) = "multipart" /\ boundary # None
            THEN multipart_loop(lines, body, eofstack, "--" \o boundary[1],
                                cur, TRUE, << >>)
            ELSE Rest(cur, body, input_end(lines, body, eofstack))
        \* the blank line after the headers is thrown away, any other line
        \* is the first line of the body
        Parsed(hend, cur) ==
            Body(cur,
                 IF ~AtEof(lines, hend, eofstack) /\ Len(lines[hend]) > 0
                    /\ Char(lines[hend], 1) \in {"\n", "\r"}
                 THEN hend + 1 ELSE hend,
                 get_boundary(cur))
        Headers(hend) ==
            Parsed(hend, [headers |-> _parse_headers(Lines(lines, k, hend - 1), 1, << >>),
                    kind |-> "str", payload |-> "",
                    preamble |-> None, epilogue |-> None])
    IN  Headers(header_end(lines, k, eofstack))

\* The while loop of _parsegen for a multipart with a boundary; `parts` are
\* the subparts read so far, `preamble` the preamble lines read so far.
multipart_loop(lines, k, eofstack, separator, cur, capturing_preamble, preamble) ==
    LET
        \* The first line at or after k that is no boundary line ("Consume any
        \* multiple boundary lines that may be following").
        RECURSIVE skip_boundaries(_, _, _)
        skip_boundaries(lines_, kk, separator_) ==
            IF kk <= Len(lines_) /\ IsBoundaryLine(lines_[kk], separator_)
            THEN skip_boundaries(lines_, kk + 1, separator_) ELSE kk
        \* "the newline preceding the boundary separator actually belongs to the
        \* boundary": the subpart as the multipart loop keeps it.
        newline_cleansed(part) ==
            IF part.kind = "list"
            THEN IF part.epilogue = None THEN part
                 ELSE IF part.epilogue[1] = "" THEN [part EXCEPT !.epilogue = None]
                 ELSE [part EXCEPT !.epilogue = <<strip_eol(part.epilogue[1])>>]
            ELSE [part EXCEPT !.payload = strip_eol(part.payload)]
        Subpart(sub) ==
            multipart_loop(lines, sub.next, eofstack, separator,
                [cur EXCEPT !.payload = Append(@, newline_cleansed(sub.msg))],
                FALSE, preamble)
        Epilogue(after) ==
            [msg |-> [cur EXCEPT !.epilogue =
                        <<join("", Lines(lines, k + 1, after - 1))>>],
             next |-> after]
    IN  IF ~AtEof(lines, k, eofstack) /\ IsBoundaryLine(lines[k], separator)
           /\ ~startswith(lines[k], separator \o "--")
        THEN IF capturing_preamble
             THEN multipart_loop(lines, k, eofstack, separator,
                      [cur EXCEPT !.kind = "list", !.payload = << >>,
                                  !.preamble = IF preamble = << >> THEN None
                                               ELSE <<strip_eol(join("", preamble))>>],
                      FALSE, preamble)
             ELSE Subpart(_parsegen(lines, skip_boundaries(lines, k + 1, separator),
                                    eofstack \cup {separator}))
        ELSE IF ~AtEof(lines, k, eofstack) /\ ~IsBoundaryLine(lines[k], separator)
        THEN \* a line of the preamble
             multipart_loop(lines, k + 1, eofstack, separator, cur,
                            capturing_preamble, Append(preamble, lines[k]))
        ELSE \* the end boundary, or the end of the input
             IF capturing_preamble
             THEN \* StartBoundaryNotFoundDefect: the text is the payload
                  [msg |-> [cur EXCEPT !.payload = join("", preamble),
                                       !.epilogue = <<"">>],
                   next |-> input_end(lines, k, eofstack)]
             ELSE IF AtEof(lines, k, eofstack)
             THEN \* CloseBoundaryNotFoundDefect
                  [msg |-> cur, next |-> k]
             ELSE Epilogue(input_end(lines, k + 1, eofstack))

\* email.message_from_string
message_from_string(raw) == _parsegen(splitlines_keepends(raw), 1, {}).msg

\* Generator._write_lines: every line end becomes "\n".
_write_lines(text) == replace(replace(text, "\r\n", "\n"), "\r", "\n")

_write_headers(msg) ==
    LET
        \* Generator._write_headers
        RECURSIVE fold_all(_)
        fold_all(headers) ==
            LET
                \* compat32.fold
                fold(name, value) ==
                    LET Joined(lines) == join("\n", [i \in 1..Len(lines) |-> strip_eol(lines[i])])
                    IN  name \o ": " \o Joined(splitlines_keepends(value)) \o "\n"
            IN
            IF Len(headers) = 0 THEN ""
            ELSE fold(headers[1][1], headers[1][2]) \o fold_all(Tail(headers))
    IN  fold_all(msg.headers) \o "\n"

\* Message.get_payload(decode=True) of a part that is not a multipart.
get_payload_decoded(msg) ==
    LET Decoded(cte, bpayload) ==
            IF cte = "quoted-printable" THEN decodestring(bpayload)
            ELSE IF cte = "base64" THEN decode_b(bpayload)
            ELSE bpayload
        Encoding(given) == IF given = None THEN "" ELSE lower(given[1])
    IN  Decoded(Encoding(get(msg, "content-transfer-encoding")),
                IF msg.kind = "bytes" THEN msg.payload
                ELSE raw_unicode_escape(msg.payload))

\* What as_string returns or raises: the text, or the name of the exception.
Returns(text) == [raises |-> "", text |-> text]

\* Generator._handle_text: the text written for the body, and what _write
\* does to the header fields when the payload carries surrogate escapes
\* and the part names a charset: <<body, None>>, or <<body, <<cte, ctype>>>>
\* with the fields _munge_cte holds.  The part is UTF-8 then.
_handle_text(msg) ==
    LET set_param_charset(msg_, charset) ==
            LET
                \* Message.set_param("charset", value): the Content-Type field rewritten
                \* with every parameter value quoted.
                RECURSIVE format_params(_, _)
                format_params(params, charset_) ==
                    IF Len(params) = 0 THEN ""
                    ELSE "; " \o params[1][1] \o "=\"" \o
                         (IF params[1][1] = "charset" THEN charset_
                          ELSE quote(unquote(params[1][2])))
                         \o "\"" \o format_params(Tail(params), charset_)
                Rewritten(value) ==
                    strip(split1(value, ";")[1])
                    \o format_params(Tail(get_params(value)), charset)
            IN  Rewritten(get(msg_, "content-type")[1])
        Encoded(charset) ==
            <<_write_lines(encodebytes(encode(decode(msg.payload, charset), charset))),
              <<"base64", set_param_charset(msg, charset)>> >>
        Text(charset) ==
            IF charset = None
            THEN <<_write_lines(decode(msg.payload, "ascii")), None>>
            ELSE Encoded(lower(charset[1]))
    IN  IF msg.kind # "bytes" THEN <<_write_lines(msg.payload), None>>
        ELSE Text(get_param(msg, "charset"))

set_boundary(msg, boundary) ==
    LET
        \* Message.set_boundary: every Content-Type field rewritten with the
        \* boundary parameter set, or tacked on the end.
        RECURSIVE boundary_params(_, _, _)
        boundary_params(params, boundary_, foundp) ==
            IF Len(params) = 0
            THEN IF foundp THEN << >> ELSE <<"boundary=\"" \o boundary_ \o "\"">>
            ELSE IF params[1][1] = "boundary"
                 THEN <<"boundary=\"" \o boundary_ \o "\"">>
                      \o boundary_params(Tail(params), boundary_, TRUE)
            ELSE <<params[1][1] \o "=\"" \o quote(unquote(params[1][2])) \o "\"">>
                 \o boundary_params(Tail(params), boundary_, foundp)
        Value(params) ==
            join("; ", <<IF params[1][2] = "" THEN params[1][1]
                         ELSE params[1][1] \o "=" \o params[1][2]>>
                       \o boundary_params(Tail(params), boundary, FALSE))
        Set(val) ==
            [msg EXCEPT !.headers =
                [i \in 1..Len(msg.headers) |->
                    IF lower(msg.headers[i][1]) = "content-type"
                    THEN <<msg.headers[i][1], val>> ELSE msg.headers[i]]]
    IN  Set(Value(get_params(get(msg, "content-type")[1])))

\* Generator.flatten / Message.as_string.  `fresh` is the boundary that
\* Generator._make_boundary draws at random for a multipart that has lost
\* its boundary parameter.
RECURSIVE as_string(_, _)
RECURSIVE join_parts(_, _)
as_string(msg, fresh) ==
    LET
        \* Generator._write for the header fields: the fields as they are, or with
        \* the munged Content-Transfer-Encoding (in place if the field exists,
        \* appended otherwise) and Content-Type.
        munged(msg_, munge_cte) ==
            IF munge_cte = None THEN msg_
            ELSE replace_header(
                    IF has_header(msg_, "content-transfer-encoding")
                    THEN replace_header(msg_, "content-transfer-encoding", munge_cte[1])
                    ELSE set_item(msg_, "Content-Transfer-Encoding", munge_cte[1]),
                    "content-type", munge_cte[2])
        Raises(exception) == [raises |-> exception, text |-> ""]
        FirstRaise(msgtexts) ==
            msgtexts[CHOOSE i \in 1..Len(msgtexts) :
                        /\ msgtexts[i].raises # ""
                        /\ \A k \in 1..(i - 1) : msgtexts[k].raises = ""]
        Multipart(msgtexts, written, boundary) ==
            IF \E i \in 1..Len(msgtexts) : msgtexts[i].raises # ""
            THEN FirstRaise(msgtexts)
            ELSE Returns(
                    _write_headers(written)
                    \o (IF msg.preamble = None THEN ""
                        ELSE _write_lines(msg.preamble[1]) \o "\n")
                    \o "--" \o boundary \o "\n"
                    \o join_parts(msgtexts, boundary)
                    \o "\n--" \o boundary \o "--\n"
                    \o (IF msg.epilogue = None THEN ""
                        ELSE _write_lines(msg.epilogue[1])))
        Bounded(msgtexts, given) ==
            IF given = None \/ given = <<"">>
            THEN Multipart(msgtexts, set_boundary(msg, fresh), fresh)
            ELSE Multipart(msgtexts, msg, given[1])
        Text(text) == Returns(_write_headers(munged(msg, text[2])) \o text[1])
        Leaf(charset) ==
            IF msg.kind = "bytes" /\ charset # None /\ ~IsUtf8(lower(charset[1]))
            THEN \* set_payload(payload, charset): the charset cannot encode
                 \* the payload, or Python does not know it
                 Raises(IF IsAscii(lower(charset[1]))
                        THEN "UnicodeEncodeError" ELSE "LookupError")
            ELSE Text(_handle_text(msg))
    IN  IF get_content_maintype(msg) = "multipart"
        THEN IF msg.kind # "list" THEN Returns(_write_headers(msg) \o msg.payload)
             ELSE Bounded([i \in 1..Len(msg.payload) |-> as_string(msg.payload[i], fresh)],
                          get_boundary(msg))
        ELSE IF msg.kind = "list"
             THEN \* _handle_text: "string payload expected"
                  Raises("TypeError")
        ELSE Leaf(get_param(msg, "charset"))

\* Generator._handle_multipart: the parts between the boundary lines.
join_parts(msgtexts, boundary) ==
    IF Len(msgtexts) = 0 THEN ""
    ELSE msgtexts[1].text \o
         (IF Len(msgtexts) = 1 THEN ""
          ELSE "\n--" \o boundary \o "\n" \o join_parts(Tail(msgtexts), boundary))

(***************************************************************************)
(* core/section_extractor.py                                               *)
(***************************************************************************)
EmailSection(index, section_type, label, content, charset, original_cte, mime_path) ==
    [index |-> index, section_type |-> section_type, label |-> label,
     content |-> content, charset |-> charset, original_cte |-> original_cte,
     mime_path |-> mime_path]

\* _extract_headers without the replace("\r", ""): the header block as it
\* stands in the raw content.
ExtractHeadersKeepingCr(raw_content) ==
    LET Before(crlf, lf) ==
            IF crlf # -1 THEN PySlice(raw_content, 0, crlf)
            ELSE IF lf # -1 THEN PySlice(raw_content, 0, lf)
            ELSE raw_content
    IN  Before(find(raw_content, "\r\n\r\n"), find(raw_content, "\n\n"))

\* _extract_headers with the separator's first line end left in the block.
ExtractHeadersWithLineEnd(raw_content) ==
    LET Before(crlf, lf) ==
            IF crlf # -1 THEN replace(PySlice(raw_content, 0, crlf + 2), "\r", "")
            ELSE IF lf # -1 THEN replace(PySlice(raw_content, 0, lf + 1), "\r", "")
            ELSE replace(raw_content, "\r", "")
    IN  Before(find(raw_content, "\r\n\r\n"), find(raw_content, "\n\n"))

_extract_headers(raw_content) ==
    LET Before(crlf, lf) ==
            IF crlf # -1 THEN replace(PySlice(raw_content, 0, crlf), "\r", "")
            ELSE IF lf # -1 THEN replace(PySlice(raw_content, 0, lf), "\r", "")
            ELSE replace(raw_content, "\r", "")
    IN  Before(find(raw_content, "\r\n\r\n"), find(raw_content, "\n\n"))

\* The digits of a small count, for the label suffix.
str_int(n) ==
    LET Digit(d) == Char("0123456789", d + 1)
    IN  IF n < 10 THEN Digit(n) ELSE Digit(n \div 10) \o Digit(n % 10)

\* _walk_parts(msg, sections, path): the list `found` with the text leaves
\* of msg appended.
\* existing_count taken over the sections of every type.
CountOfAllTypes(found, section_type) == Len(found)

\* sum(1 for s in sections if s.section_type == section_type)
existing_count(found, section_type) ==
    Len(SelectSeq(found, LAMBDA sec : sec.section_type = section_type))

RECURSIVE _walk_parts(_, _, _)
RECURSIVE _walk_parts_list(_, _, _, _)
_walk_parts(msg, found, path) ==
    LET RECURSIVE upper(_)
        upper(s) ==
            IF Len(s) <= 1 THEN upper_char(s)
            ELSE upper(PySlice(s, 0, Len(s) \div 2)) \o upper(PySlice(s, Len(s) \div 2, Len(s)))
        Labelled(label, existing_count_) ==
            IF existing_count_ > 0
            THEN label \o " (" \o str_int(existing_count_ + 1) \o ")"
            ELSE label
        Section(content_type, charset, cte, content, section_type) ==
            Append(found,
                EmailSection(0, section_type,
                    Labelled(IF content_type = "text/plain" THEN "Text Body"
                             ELSE IF content_type = "text/html" THEN "HTML Body"
                             ELSE content_type \o " Body",
                             existing_count(found, section_type)),
                    content, charset, cte, path))
        Last(parts) == parts[Len(parts)]
        \* LookupError: an unknown charset falls back to UTF-8
        Decoded(content_type, charset, cte, raw_bytes) ==
            Section(content_type, charset, cte,
                replace(IF KnownCharset(charset) THEN decode(raw_bytes, charset)
                        ELSE decode(raw_bytes, "utf-8"),
                        "\r", ""),
                IF content_type = "text/plain" THEN "TEXT_PLAIN"
                ELSE IF content_type = "text/html" THEN "TEXT_HTML"
                ELSE "TEXT_" \o upper(Last(split(content_type, "/"))))
        Leaf(content_type, declared, given) ==
            IF ~startswith(content_type, "text/") THEN found
            ELSE Decoded(content_type,
                         IF declared = None THEN "utf-8" ELSE declared[1],
                         IF given = None THEN "7bit" ELSE lower(strip(given[1])),
                         get_payload_decoded(msg))
    IN  IF is_multipart(msg) THEN _walk_parts_list(msg.payload, 1, found, path)
        ELSE Leaf(get_content_type(msg), get_content_charset(msg),
                  get(msg, "Content-Transfer-Encoding"))

\* The loop over the parts with enumerate(msg.get_payload(), 1): positions
\* counted from 1.
RECURSIVE WalkPartsFromOne(_, _, _, _)
WalkPartsFromOne(parts, i, found, path) ==
    IF i > Len(parts) THEN found
    ELSE WalkPartsFromOne(parts, i + 1,
                          _walk_parts(parts[i], found, Append(path, i)), path)

_walk_parts_list(parts, i, found, path) ==
    IF i > Len(parts) THEN found
    ELSE _walk_parts_list(parts, i + 1,
                          _walk_parts(parts[i], found, Append(path, i - 1)), path)

_extract_body_sections(msg) == _walk_parts(msg, << >>, << >>)

extract_sections(raw_content) ==
    LET Indexed(body_sections) ==
            [i \in 1..Len(body_sections) |-> [body_sections[i] EXCEPT !.index = i]]
    IN  <<EmailSection(0, "HEADERS", "Email Headers", _extract_headers(raw_content),
                       "utf-8", "7bit", << >>)>>
        \o Indexed(_extract_body_sections(message_from_string(raw_content)))

(***************************************************************************)
(* core/section_reassembler.py.  An annotation is a record with the fields *)
(* section_index, start_offset, end_offset, tag and class_name; a missing  *)
(* tag is "".                                                              *)
(***************************************************************************)
\* The annotations in the order of the input list, without the sort.
Unsorted(anns) == anns

\* sorted(annotations, key=lambda a: a.start_offset, reverse=True): a
\* stable sort, so spans with the same start keep their order.
RECURSIVE sorted_reverse(_)
sorted_reverse(anns) ==
    IF Len(anns) <= 1 THEN anns
    ELSE LET Inserted(rest) ==
                SelectSeq(rest, LAMBDA a : a.start_offset > Head(anns).start_offset)
                \o <<Head(anns)>>
                \o SelectSeq(rest, LAMBDA a : a.start_offset <= Head(anns).start_offset)
         IN  Inserted(sorted_reverse(Tail(anns)))

\* _apply_replacements with an empty loop: the content is returned as it is.
ApplyNoReplacements(content, anns) == content

_apply_replacements(content, anns) ==
    LET RECURSIVE replace_spans(_, _)
        replace_spans(result, sorted_anns) ==
            IF Len(sorted_anns) = 0 THEN result
            ELSE LET Spliced(ann, tag) ==
                        replace_spans(PySlice(result, 0, ann.start_offset) \o tag
                                         \o PySlice(result, ann.end_offset, Len(result)),
                                      Tail(sorted_anns))
                     Tagged(ann) ==
                        Spliced(ann, IF ann.tag # "" THEN ann.tag
                                     ELSE "[" \o ann.class_name \o "]")
                 IN  Tagged(Head(sorted_anns))
    IN  replace_spans(content, sorted_reverse(anns))

\* A grouping that hands every annotation to every section.
UngroupedAnnotations(anns, section_index) == anns

\* annotations_by_section.get(section_index, []) for the dict that
\* group_annotations_by_section builds from the list anns.
group_annotations_by_section(anns, section_index) ==
    SelectSeq(anns, LAMBDA a : a.section_index = section_index)

\* try: msg.replace_header(name, value)  except KeyError: msg[name] = value
replace_or_add(msg, name, value) ==
    IF has_header(msg, name) THEN replace_header(msg, name, value)
    ELSE set_item(msg, name, value)

_replace_headers_by_parsing(msg, deidentified_header_text) ==
    LET
        \* The second loop of _replace_headers_by_parsing.
        RECURSIVE set_headers(_, _)
        set_headers(msg_, to_set) ==
            IF Len(to_set) = 0 THEN msg_
            ELSE LET Set(header_name, header_value, original) ==
                        set_headers(
                            IF /\ lower(header_name) \notin
                                    {"content-type", "mime-version", "content-transfer-encoding"}
                               /\ original # None
                               /\ original[1] # header_value
                            THEN replace_header(msg_, header_name, header_value)
                            ELSE msg_,
                            Tail(to_set))
                 IN  Set(to_set[1][1], to_set[1][2], get(msg_, to_set[1][1]))
        \* The first loop of _replace_headers_by_parsing from line i on; no header
        \* is being collected while current_header is "".
        RECURSIVE headers_to_set(_, _, _, _)
        headers_to_set(lines, i, current_header, current_value_parts) ==
            LET Collected(done, line, nv) ==
                    IF startswith(line, " ") \/ startswith(line, "\t")
                    THEN headers_to_set(lines, i + 1, current_header,
                                        Append(current_value_parts, line))
                    ELSE IF Len(nv) = 2
                         THEN done \o headers_to_set(lines, i + 1, nv[1], <<strip(nv[2])>>)
                    ELSE IF current_header # ""
                         THEN headers_to_set(lines, i + 1, current_header,
                                             Append(current_value_parts, line))
                    ELSE headers_to_set(lines, i + 1, current_header, current_value_parts)
                Loop(done) ==
                    IF i > Len(lines) THEN done
                    ELSE Collected(done, lines[i], split1(lines[i], ":"))
            IN  Loop(IF current_header # ""
                     THEN <<<<current_header, join("\n", current_value_parts)>>>>
                     ELSE << >>)
    IN
    set_headers(msg, headers_to_set(split(deidentified_header_text, "\n"), 1, "", << >>))

_deidentify_headers(msg, header_section, anns) ==
    LET
        \* The loop of _deidentify_headers over the lines from i on.
        RECURSIVE update_changed_lines(_, _, _, _)
        update_changed_lines(msg_, original_lines, deidentified_lines, i) ==
            IF i > Len(original_lines) THEN msg_
            ELSE LET Updated(new, nv) ==
                        update_changed_lines(
                            IF /\ original_lines[i] # new
                               /\ Len(nv) = 2
                               /\ ~startswith(new, " ") /\ ~startswith(new, "\t")
                            THEN replace_or_add(msg_, nv[1], strip(nv[2]))
                            ELSE msg_,
                            original_lines, deidentified_lines, i + 1)
                 IN  Updated(deidentified_lines[i], split1(deidentified_lines[i], ":"))
        Updated(deidentified, deidentified_lines, original_lines) ==
            IF Len(deidentified_lines) # Len(original_lines)
            THEN _replace_headers_by_parsing(msg, deidentified)
            ELSE update_changed_lines(msg, original_lines, deidentified_lines, 1)
        Lines_(deidentified) ==
            Updated(deidentified, split(deidentified, "\n"),
                    split(header_section.content, "\n"))
    IN  Lines_(_apply_replacements(header_section.content, anns))

_set_part_payload(msg, text, section) ==
    LET
        \* Message.set_payload(payload) for str.
        set_payload_str(msg_, text_) == [msg_ EXCEPT !.kind = "str", !.payload = text_]
        \* Message.set_payload(payload) for bytes: payload.decode("ascii",
        \* "surrogateescape").
        set_payload_bytes(msg_, payload_bytes) ==
            IF \A i \in 1..Len(payload_bytes) : payload_bytes[i] < 128
            THEN [msg_ EXCEPT !.kind = "str", !.payload = ascii_decode(payload_bytes)]
            ELSE [msg_ EXCEPT !.kind = "bytes", !.payload = payload_bytes]
        new_cte == IF section.original_cte \in {"base64", "quoted-printable"}
                   THEN section.original_cte ELSE "8bit"
        Headed(with_payload) ==
            replace_or_add(with_payload, "Content-Transfer-Encoding", new_cte)
        Payload(payload_bytes) ==
            Headed(IF section.original_cte = "base64"
                   THEN set_payload_str(msg, encodebytes(payload_bytes))
                   ELSE IF section.original_cte = "quoted-printable"
                        THEN set_payload_str(msg, encodestring(payload_bytes))
                   ELSE set_payload_bytes(msg, payload_bytes))
        \* LookupError: an unknown charset falls back to UTF-8
        Encoded(charset) ==
            Payload(IF KnownCharset(charset) THEN encode(text, charset)
                    ELSE encode(text, "utf-8"))
    IN  Encoded(IF section.charset = "" THEN "utf-8" ELSE section.charset)

RECURSIVE _walk_and_deidentify(_, _, _, _)
_walk_and_deidentify(msg, body_sections, anns, path) ==
    LET Leaf(section) ==
            IF ~startswith(get_content_type(msg), "text/") \/ section = None THEN msg
            ELSE _set_part_payload(msg,
                    _apply_replacements(section[1].content,
                        group_annotations_by_section(anns, section[1].index)),
                    section[1])
    IN  IF is_multipart(msg)
        THEN [msg EXCEPT !.payload =
                [i \in 1..Len(msg.payload) |->
                    _walk_and_deidentify(msg.payload[i], body_sections, anns,
                                         Append(path, i - 1))]]
        \* section_by_path.get(path): the last body section with that path
        ELSE LET Last(hits) == IF Len(hits) = 0 THEN None ELSE <<hits[Len(hits)]>>
             IN  Leaf(Last(SelectSeq(body_sections,
                                     LAMBDA sec : sec.mime_path = path)))

\* _deidentify_multipart without its walk: the message as it was parsed.
DeidentifyNoPart(msg, body_sections, anns) == msg

_deidentify_multipart(msg, body_sections, anns) ==
    _walk_and_deidentify(msg, body_sections, anns, << >>)

deidentify_and_reassemble(raw_content, secs, anns, fresh) ==
    LET Body(with_headers, body_sections) ==
            IF is_multipart(with_headers)
            THEN _deidentify_multipart(with_headers, body_sections, anns)
            ELSE IF Len(body_sections) > 0
                 THEN _set_part_payload(with_headers,
                         _apply_replacements(body_sections[1].content,
                             group_annotations_by_section(anns, body_sections[1].index)),
                         body_sections[1])
            ELSE with_headers
        Headers(msg, header_sections, header_anns) ==
            Body(IF Len(header_sections) > 0 /\ Len(header_anns) > 0
                 THEN _deidentify_headers(msg, header_sections[1], header_anns)
                 ELSE msg,
                 SelectSeq(secs, LAMBDA sec : sec.section_type # "HEADERS"))
    IN  as_string(
          Headers(message_from_string(raw_content),
                  SelectSeq(secs, LAMBDA sec : sec.section_type = "HEADERS"),
                  group_annotations_by_section(anns, 0)),
          fresh)

(***************************************************************************)
(* annotations/management/commands/fix_utf16_offsets.py                    *)
(***************************************************************************)

_utf16_offset_to_codepoint(text, utf16_offset) ==
    LET RECURSIVE Utf16Loop(_, _, _, _)
        Utf16Loop(text_, utf16_offset_, cp_idx, u16_pos) ==
            IF cp_idx >= Len(text_)
            THEN IF u16_pos = utf16_offset_ THEN <<Len(text_)>> ELSE None
            ELSE IF u16_pos >= utf16_offset_
                 THEN <<cp_idx>>
                 ELSE Utf16Loop(text_, utf16_offset_, cp_idx + 1,
                                u16_pos + (IF ord(Char(text_, cp_idx + 1)) > 65535 THEN 2 ELSE 1))
    IN
    Utf16Loop(text, utf16_offset, 0, 0)

\* _try_fix without its verification step: the converted offsets are adopted
\* whatever the slice they select.
TryFixUnverified(section_content, start_offset, end_offset, original_text) ==
    LET new_start == _utf16_offset_to_codepoint(section_content, start_offset)
        new_end == _utf16_offset_to_codepoint(section_content, end_offset)
    IN  IF new_start = None \/ new_end = None THEN None
        ELSE IF new_start[1] = start_offset /\ new_end[1] = end_offset
             THEN <<start_offset, end_offset, FALSE>>
             ELSE <<new_start[1], new_end[1], TRUE>>

\* None, or <<new_start, new_end, was_changed>>.
_try_fix(section_content, start_offset, end_offset, original_text) ==
    LET new_start == _utf16_offset_to_codepoint(section_content, start_offset)
        new_end == _utf16_offset_to_codepoint(section_content, end_offset)
    IN  IF new_start = None \/ new_end = None THEN None
        ELSE IF new_start[1] = start_offset /\ new_end[1] = end_offset
             THEN <<start_offset, end_offset, FALSE>>
             ELSE IF PySlice(section_content, new_start[1], new_end[1]) = original_text
                  THEN <<new_start[1], new_end[1], TRUE>>
                  ELSE None

(***************************************************************************)
(* annotations/management/commands/trim_annotation_whitespace.py           *)
(***************************************************************************)
\* None, or <<new_text, new_start, new_end, was_changed>>.
_trim_whitespace(original_text, start_offset, end_offset) ==
    LET stripped == strip(original_text)
    IN  IF stripped = original_text
        THEN <<original_text, start_offset, end_offset, FALSE>>
        ELSE IF stripped = "" THEN None
        ELSE LET leading == Len(original_text) - Len(lstrip(original_text))
                 trailing == Len(original_text) - Len(rstrip(original_text))
             IN  <<stripped, start_offset + leading, end_offset - trailing, TRUE>>

\* _get_sections_map(job): section_index -> content, for the sections that
\* extract_sections finds in the job's .eml.  job.sections is that list
\* (index i at position i + 1); None when the index names no section.
_get_sections_map(j, section_index) ==
    IF section_index >= 0 /\ section_index < Len(j.sections)
    THEN <<j.sections[section_index + 1]>> ELSE None

\* The outcome of one loop iteration: what was counted, and the span as the
\* loop leaves it in memory.
Outcome(what, before, after) == [outcome |-> what, before |-> before, ann |-> after]

\* One iteration of the loop of Command._fix_annotations (trim).
TrimAnnotation(j, ann) ==
    LET result == _trim_whitespace(ann.original_text, ann.start_offset, ann.end_offset)
    IN  IF result = None THEN Outcome("all_whitespace", ann, ann)
        ELSE IF ~result[4] THEN Outcome("unchanged", ann, ann)
        ELSE LET section_content == _get_sections_map(j, ann.section_index)
             IN  IF section_content = None
                 THEN Outcome("verification_failed", ann, ann)
                 ELSE IF PySlice(section_content[1], result[2], result[3]) # result[1]
                      THEN Outcome("verification_failed", ann, ann)
                      ELSE Outcome("trimmed", ann,
                                   [ann EXCEPT !.original_text = result[1],
                                               !.start_offset = result[2],
                                               !.end_offset = result[3]])

\* One iteration of the inner loop of Command._fix_draft_annotations and
\* Command._fix_qa_draft_reviews (trim): the same steps on camelCase keys.
TrimDraftEntry(j, ann) ==
    LET result == _trim_whitespace(ann.originalText, ann.startOffset, ann.endOffset)
    IN  IF result = None THEN Outcome("all_whitespace", ann, ann)
        ELSE IF ~result[4] THEN Outcome("unchanged", ann, ann)
        ELSE LET section_content == _get_sections_map(j, ann.sectionIndex)
             IN  IF section_content = None
                 THEN Outcome("verification_failed", ann, ann)
                 ELSE IF PySlice(section_content[1], result[2], result[3]) # result[1]
                      THEN Outcome("verification_failed", ann, ann)
                      ELSE Outcome("trimmed", ann,
                                   [ann EXCEPT !.originalText = result[1],
                                               !.startOffset = result[2],
                                               !.endOffset = result[3]])

\* The draft list after the loop: trimmed entries updated in place, the
\* to_remove indexes popped.
RECURSIVE TrimmedList(_)
TrimmedList(outcomes) ==
    IF outcomes = << >> THEN << >>
    ELSE (IF Head(outcomes).outcome = "all_whitespace"
          THEN << >> ELSE <<Head(outcomes).ann>>) \o TrimmedList(Tail(outcomes))

(***************************************************************************)
(* fix_utf16_offsets.py: the loops.                                        *)
(***************************************************************************)
\* One iteration of the loop of Command._fix_annotations (UTF-16).
FixAnnotation(j, ann) ==
    LET section_content == _get_sections_map(j, ann.section_index)
    IN  IF section_content = None THEN Outcome("verification_failed", ann, ann)
        ELSE LET result == _try_fix(section_content[1], ann.start_offset,
                                    ann.end_offset, ann.original_text)
             IN  IF result = None THEN Outcome("verification_failed", ann, ann)
                 ELSE IF ~result[3] THEN Outcome("unchanged", ann, ann)
                 ELSE Outcome("fixed", ann,
                              [ann EXCEPT !.start_offset = result[1],
                                          !.end_offset = result[2]])

\* One iteration of the inner loop of Command._fix_draft_annotations and
\* Command._fix_qa_draft_reviews (UTF-16).
FixDraftEntry(j, ann) ==
    LET section_content == _get_sections_map(j, ann.sectionIndex)
    IN  IF section_content = None THEN Outcome("verification_failed", ann, ann)
        ELSE LET result == _try_fix(section_content[1], ann.startOffset,
                                    ann.endOffset, ann.originalText)
             IN  IF result = None THEN Outcome("verification_failed", ann, ann)
                 ELSE IF ~result[3] THEN Outcome("unchanged", ann, ann)
                 ELSE Outcome("fixed", ann,
                              [ann EXCEPT !.startOffset = result[1],
                                          !.endOffset = result[2]])

\* The spans of a list after a loop that removes nothing.
AfterList(outcomes) == [i \in 1..Len(outcomes) |-> outcomes[i].ann]

(***************************************************************************)
(* The job, the requests and the stores.                                   *)
(***************************************************************************)

\* len(text) as a browser counts it (String.length, UTF-16 code units).
RECURSIVE Utf16Length(_)
Utf16Length(text) ==
    IF text = "" THEN 0
    ELSE (IF ord(Char(text, 1)) > 65535 THEN 2 ELSE 1)
         + Utf16Length(SubSeq(text, 2, Len(text)))

Span(si, s, e, t) ==
    [section_index |-> si, start_offset |-> s, end_offset |-> e, original_text |-> t]

\* The annotation lists a client sends: the list its editor holds (the saved
\* draft, `held`) with one more span, that list as it is, or no span; never
\* more than `room` spans.
ClientLists(j, held, room) ==
    LET
        \* Requests name the body section, or (for the whole body) a section the
        \* .eml does not have.
        RequestSpans(jj) ==
            LET
                \* The spans a client may send for section si with content c: the text of a
                \* selection, with offsets counted in code points (exact or drifted) or in
                \* UTF-16 code units.
                ClientSpans(si, c) ==
                    LET
                        \* The selections [s, e) of a content c.
                        Selections(cc) == { se \in (0..Len(cc)) \X (0..Len(cc)) : se[1] < se[2] }
                    IN
                    { Span(si, se[1] + d, se[2] + d, PySlice(c, se[1], se[2])) :
                        se \in Selections(c), d \in {-1, 0, 1} }
                    \cup
                    { Span(si, Utf16Length(PySlice(c, 0, se[1])), Utf16Length(PySlice(c, 0, se[2])),
                           PySlice(c, se[1], se[2])) : se \in Selections(c) }
            IN
            ClientSpans(1, jj.sections[2])
            \cup { Span(Len(jj.sections), 0, Len(jj.sections[2]), jj.sections[2]) }
    IN
    { anns \in {<< >>, held} \cup { Append(held, sp) : sp \in RequestSpans(j) } :
        Len(anns) <= room }

\* The draft entries as the browser stores them (camelCase keys).
DraftList(anns) ==
    [i \in 1..Len(anns) |->
        [sectionIndex |-> anns[i].section_index, startOffset |-> anns[i].start_offset,
         endOffset |-> anns[i].end_offset, originalText |-> anns[i].original_text]]
\* The same entries as a request body sends them (snake_case keys).
RequestList(entries) ==
    [i \in 1..Len(entries) |->
        Span(entries[i].sectionIndex, entries[i].startOffset,
             entries[i].endOffset, entries[i].originalText)]

Response(handler, code) ==
    [handler |-> handler, code |-> code, dry_run |-> FALSE,
     annotations |-> << >>, drafts |-> << >>, qa_drafts |-> << >>]

(***************************************************************************)
(* datasets/management/commands/import_prelabeled_data.py                  *)
(***************************************************************************)
\* The records Command._import_asset builds from the entity texts, in the
\* order of their offsets: each text is searched in the sections in index
\* order from the section's search position, then from the start of every
\* section; a text that no section holds is skipped.
RECURSIVE annotation_records(_, _, _)
annotation_records(contents, entities, search_positions) ==
    IF entities = << >> THEN << >>
    ELSE LET text == Head(entities)
             Pos(k, from) ==
                 find(PySlice(contents[k], from[k], Len(contents[k])), text)
             Holding(from) ==
                 LET Hits == { k \in 1..Len(contents) : Pos(k, from) # -1 }
                 IN  IF Hits = {} THEN 0
                     ELSE CHOOSE k \in Hits : \A h \in Hits : k <= h
             Record(k, from) ==
                 Span(k - 1, from[k] + Pos(k, from),
                      from[k] + Pos(k, from) + Len(text), text)
             start == [k \in 1..Len(contents) |-> 0]
         IN  IF Holding(search_positions) # 0
             THEN LET Found(k) ==
                          <<Record(k, search_positions)>>
                          \o annotation_records(
                                contents, Tail(entities),
                                [search_positions EXCEPT
                                   ![k] = Record(k, search_positions).end_offset])
                  IN  Found(Holding(search_positions))
             ELSE IF Holding(start) # 0
                  THEN <<Record(Holding(start), start)>>
                       \o annotation_records(contents, Tail(entities), search_positions)
                  ELSE annotation_records(contents, Tail(entities), search_positions)

\* The job is an uploaded file assigned to an annotator, or a file imported
\* with the entities labelled for it (status SUBMITTED_FOR_QA, the default).
Init ==
    LET
        \* The section contents extract_sections returns for the job's .eml: the
        \* header block and one text body.
        JobSections == { <<"S: x", "|a ">>, <<"S: x", " |a">>, <<"S: x", "|aa">> }
    IN
    /\ \E ss \in JobSections :
          \/ /\ job = [status |-> "ASSIGNED_ANNOTATOR", sections |-> ss]
             /\ annotations = << >>
          \/ /\ job = [status |-> "SUBMITTED_FOR_QA", sections |-> ss]
             /\ \E entities \in UNION { [1..n -> {" ", "a"}] : n \in 1..MaxSpans } :
                   annotations
                     = annotation_records(ss, entities, [k \in 1..Len(ss) |-> 0])
    /\ draft = << >>
    /\ qa_draft = << >>
    /\ output = Response("none", 0)
    /\ eml_content = ""
    /\ sections = None
    /\ latest_version = None
    /\ exported = None

(***************************************************************************)
(* annotations/serializers.py, annotations/views.py, qa/views.py           *)
(***************************************************************************)

validate_annotations(value, min_length) ==
    LET
        \* SubmitAnnotationSerializer.validate_annotations and
        \* AcceptAnnotationSerializer.validate_modified_annotations, for one entry:
        \* TRUE when no ValidationError is raised.
        ValidAnnotation(ann, min_length_) ==
            /\ ~(ann.start_offset >= ann.end_offset)
            /\ strip(ann.original_text) # ""
            /\ ~(Len(strip(ann.original_text)) < min_length_)
    IN
    \A i \in 1..Len(value) : ValidAnnotation(value[i], min_length)

start_annotation ==
    /\ job.status \in {"ASSIGNED_ANNOTATOR", "QA_REJECTED"}
    /\ job' = [job EXCEPT !.status = "ANNOTATION_IN_PROGRESS"]
    /\ output' = Response("start_annotation", 200)
    /\ UNCHANGED <<annotations, draft, qa_draft>>
    /\ UNCHANGED mail_vars

save_draft ==
    /\ job.status = "ANNOTATION_IN_PROGRESS"
    /\ \E anns \in ClientLists(job, RequestList(draft),
                              MaxSpans - Len(annotations) - Len(qa_draft)) :
          draft' = DraftList(anns)
    /\ output' = Response("save_draft", 200)
    /\ UNCHANGED <<job, annotations, qa_draft>>
    /\ UNCHANGED mail_vars

submit_annotation ==
    /\ job.status = "ANNOTATION_IN_PROGRESS"
    /\ \E anns \in ClientLists(job, RequestList(draft),
                              MaxSpans - Len(annotations) - Len(qa_draft)) :
          IF validate_annotations(anns, min_annotation_length)
          THEN /\ annotations' = annotations \o anns
               /\ draft' = << >>
               /\ job' = [job EXCEPT !.status = "SUBMITTED_FOR_QA"]
               /\ output' = Response("submit_annotation", 201)
          ELSE /\ output' = Response("submit_annotation", 400)
               /\ UNCHANGED <<job, annotations, draft>>
    /\ UNCHANGED qa_draft
    /\ UNCHANGED mail_vars

\* JobViewSet bulk assignment with assign_type "QA".
assign_qa ==
    /\ job.status = "SUBMITTED_FOR_QA"
    /\ job' = [job EXCEPT !.status = "ASSIGNED_QA"]
    /\ output' = Response("assign", 200)
    /\ UNCHANGED <<annotations, draft, qa_draft>>
    /\ UNCHANGED mail_vars

start_qa_review ==
    /\ job.status = "ASSIGNED_QA"
    /\ job' = [job EXCEPT !.status = "QA_IN_PROGRESS"]
    /\ output' = Response("start_qa_review", 200)
    /\ UNCHANGED <<annotations, draft, qa_draft>>
    /\ UNCHANGED mail_vars

save_qa_draft ==
    /\ job.status = "QA_IN_PROGRESS"
    /\ \E anns \in ClientLists(job, RequestList(qa_draft),
                              MaxSpans - Len(annotations) - Len(draft)) :
          qa_draft' = DraftList(anns)
    /\ output' = Response("save_qa_draft", 200)
    /\ UNCHANGED <<job, annotations, draft>>
    /\ UNCHANGED mail_vars

\* modified_annotations is None or empty: no new version is created.
accept_annotation ==
    /\ job.status = "QA_IN_PROGRESS"
    /\ \E anns \in ClientLists(job, RequestList(qa_draft),
                              MaxSpans - Len(annotations) - Len(draft)) :
          IF validate_annotations(anns, min_annotation_length)
          THEN /\ annotations' = annotations \o anns
               /\ qa_draft' = << >>
               /\ job' = [job EXCEPT !.status = "DELIVERED"]
               /\ output' = Response("accept_annotation", 201)
          ELSE /\ output' = Response("accept_annotation", 400)
               /\ UNCHANGED <<job, annotations, qa_draft>>
    /\ UNCHANGED draft
    /\ UNCHANGED mail_vars

reject_annotation ==
    /\ job.status = "QA_IN_PROGRESS"
    /\ job' = [job EXCEPT !.status = "QA_REJECTED"]
    /\ qa_draft' = << >>
    /\ output' = Response("reject_annotation", 201)
    /\ UNCHANGED <<annotations, draft>>
    /\ UNCHANGED mail_vars

(***************************************************************************)
(* The two repair commands: Command.handle.                                *)
(***************************************************************************)
trim_annotation_whitespace ==
    \E dry_run \in BOOLEAN :
        LET ann_out == [i \in 1..Len(annotations) |-> TrimAnnotation(job, annotations[i])]
            draft_out == [i \in 1..Len(draft) |-> TrimDraftEntry(job, draft[i])]
            qa_out == [i \in 1..Len(qa_draft) |-> TrimDraftEntry(job, qa_draft[i])]
        IN  /\ annotations' = IF dry_run THEN annotations ELSE AfterList(ann_out)
            /\ draft' = IF dry_run THEN draft ELSE TrimmedList(draft_out)
            /\ qa_draft' = IF dry_run THEN qa_draft ELSE TrimmedList(qa_out)
            /\ output' = [handler |-> "trim_annotation_whitespace", code |-> 0,
                          dry_run |-> dry_run, annotations |-> ann_out,
                          drafts |-> draft_out, qa_drafts |-> qa_out]
            /\ UNCHANGED <<job, mail_vars>>

fix_utf16_offsets ==
    \E dry_run \in BOOLEAN :
        LET ann_out == [i \in 1..Len(annotations) |-> FixAnnotation(job, annotations[i])]
            draft_out == [i \in 1..Len(draft) |-> FixDraftEntry(job, draft[i])]
            qa_out == [i \in 1..Len(qa_draft) |-> FixDraftEntry(job, qa_draft[i])]
        IN  /\ annotations' = IF dry_run THEN annotations ELSE AfterList(ann_out)
            /\ draft' = IF dry_run THEN draft ELSE AfterList(draft_out)
            /\ qa_draft' = IF dry_run THEN qa_draft ELSE AfterList(qa_out)
            /\ output' = [handler |-> "fix_utf16_offsets", code |-> 0,
                          dry_run |-> dry_run, annotations |-> ann_out,
                          drafts |-> draft_out, qa_drafts |-> qa_out]
            /\ UNCHANGED <<job, mail_vars>>

Next ==
    \/ start_annotation
    \/ save_draft
    \/ submit_annotation
    \/ assign_qa
    \/ start_qa_review
    \/ save_qa_draft
    \/ accept_annotation
    \/ reject_annotation
    \/ trim_annotation_whitespace
    \/ fix_utf16_offsets

Spec == Init /\ [][Next]_vars

(***************************************************************************)
(* The export of one job: annotations/views.py (raw content),              *)
(* exports/views.py (_deidentify_job).                                     *)
(***************************************************************************)
\* Job.eml_content of the job.
\* Example 1 of the specification: a single text/plain part, no transfer
\* encoding field, CRLF line ends.
Example1 ==
    "From: a@b.com\r\nContent-Type: text/plain; charset=utf-8\r\n\r\nHello\r\n"

Messages ==
    { Example1,
      "From: a\nReceived: by mx\n\tfor <x@y.com>;\n\nHi bob\n",
      "Received: from a1\nReceived: from b2\nFrom: c\n\nHi\n",
      "From: a\nContent-Type: multipart/mixed; boundary=b1\n\n--b1\nContent-Type: text/plain\n\nHi bob\n--b1\nContent-Type: image/png\nContent-Transfer-Encoding: base64\n\niVBORw0K\n--b1--\n",
      "From: a\nContent-Type: multipart/alternative; boundary=\"b1\"\n\n--b1\n\nHi\n--b1\nContent-Type: text/html\n\n<p>Hi</p>\n--b1--\n",
      "Content-Transfer-Encoding: base64\nContent-Type: text/plain; charset=utf-8\nFrom: a\n\nSGkgYm9iDQo=\n",
      "From: a\nContent-Type: text/plain; charset=us-ascii\nContent-Transfer-Encoding: quoted-printable\n\nH=E9llo\n",
      "From: a\nContent-Type: text/plain; charset=utf-8\nContent-Transfer-Encoding: 8bit\n\nH^llo\n",
      "From: a\nContent-Transfer-Encoding: 7bit\n\nHi bob\n",
      "From: a\rTo: b\n",
      "From: a",
      "" }

\* The Annotation rows a version can hold for the sections: valid spans.
Annotation(section_index, se, tag) ==
    [section_index |-> section_index, start_offset |-> se[1], end_offset |-> se[2],
     tag |-> tag, class_name |-> "email"]

Annotations(secs) ==
    LET
        \* The spans an annotator selects: the words of a section's content.
        Words(content) ==
            { se \in (0..Len(content)) \X (1..Len(content)) :
                /\ se[1] < se[2]
                /\ \A i \in (se[1] + 1)..se[2] : ~IsSpace(Char(content, i))
                /\ se[1] = 0 \/ IsSpace(Char(content, se[1]))
                /\ se[2] = Len(content) \/ IsSpace(Char(content, se[2] + 1)) }
        \* Annotation.tag: "" when the annotation carries no tag of its own.
        Tags == {"", "[greeting]"}
    IN
    UNION { { Annotation(secs[k].index, se, tag) :
                se \in Words(secs[k].content), tag \in Tags } : k \in 1..Len(secs) }

\* The lists of at most n annotations, no two of them overlapping, in the
\* order of the query.
RECURSIVE Versions(_, _)
Versions(anns, n) ==
    LET
        \* .order_by("section_index", "start_offset")
        OrderedBefore(a, b) ==
            \/ a.section_index < b.section_index
            \/ a.section_index = b.section_index /\ a.start_offset < b.start_offset
    IN
    IF n = 0 THEN { << >> }
    ELSE LET shorter == Versions(anns, n - 1)
         IN  shorter \cup
             { Append(v, a) : v \in { w \in shorter : Len(w) = n - 1 },
                              a \in { b \in anns : n = 1 } }
             \cup
             UNION { { Append(v, a) :
                        a \in { b \in anns :
                                 /\ OrderedBefore(v[Len(v)], b)
                                 /\ \/ b.section_index # v[Len(v)].section_index
                                    \/ b.start_offset >= v[Len(v)].end_offset } } :
                     v \in { w \in shorter : Len(w) = n - 1 /\ n > 1 } }

\* Generator._make_boundary: the boundaries the random token can give.
FreshBoundaries ==
    { "===============0000000000000000001==",
      "===============0000000000000000002==" }

MailInit ==
    /\ eml_content \in Messages
    /\ sections = None
    /\ latest_version = None
    /\ exported = None
    /\ job = [status |-> "DELIVERED", sections |-> << >>]
    /\ annotations = << >>
    /\ draft = << >>
    /\ qa_draft = << >>
    /\ output = Response("none", 0)

\* AnnotationViewSet.get_raw_content: the sections sent to the annotator;
\* a job without content is answered 404.
get_raw_content ==
    /\ sections = None
    /\ eml_content # ""
    /\ sections' = <<extract_sections(eml_content)>>
    /\ UNCHANGED <<eml_content, latest_version, exported, store_vars>>

\* AnnotationViewSet.submit_annotation: the version that is exported, its
\* annotations valid spans of the sections the annotator was sent.
create_version ==
    /\ sections # None
    /\ latest_version = None
    /\ exported = None
    /\ \E v \in Versions(Annotations(sections[1]), MaxAnns) :
          latest_version' = <<v>>
    /\ UNCHANGED <<eml_content, sections, exported, store_vars>>

\* ExportViewSet._deidentify_job
_deidentify_job ==
    /\ exported = None
    /\ sections' = <<extract_sections(eml_content)>>
    /\ IF latest_version = None
       THEN exported' = <<Returns(eml_content)>>
       ELSE \E fresh \in FreshBoundaries :
               exported' = <<deidentify_and_reassemble(
                               eml_content, extract_sections(eml_content),
                               latest_version[1], fresh)>>
    /\ UNCHANGED <<eml_content, latest_version, store_vars>>

MailNext ==
    \/ get_raw_content
    \/ create_version
    \/ _deidentify_job

MailSpec == MailInit /\ [][MailNext]_vars

(***************************************************************************)
(* Extraction alone: jobs that are read and exported before any annotator  *)
(* has submitted a version.                                                *)
(***************************************************************************)
MaxParts == 3

\* A multipart/mixed message of the parts of these kinds, in this order.
TreeMessage(kinds) ==
    LET
        \* The parts a multipart message is made of: a plain text, an HTML text
        \* whose lines hold dashes and the start of the boundary, an image, and a
        \* multipart/alternative of a plain and an HTML text.
        PartOf(kind) ==
            CASE kind = "plain" -> "Content-Type: text/plain\n\nHi\n"
              [] kind = "html" ->
                    "Content-Type: text/html\n\n<!-- b1 ----></td>\n--b1x\n-- b1\nend\n"
              [] kind = "png" ->
                    "Content-Type: image/png\nContent-Transfer-Encoding: base64\n\niVBORw0K\n"
              [] kind = "nested" ->
                    "Content-Type: multipart/alternative; boundary=b2\n\n"
                    \o "--b2\nContent-Type: text/plain\n\nHi\n"
                    \o "--b2\nContent-Type: text/html\n\n<b>Hi</b>\n--b2--\n"
    IN
    "From: a\nContent-Type: multipart/mixed; boundary=b1\n\n"
    \o join("", [i \in 1..Len(kinds) |-> "--b1\n" \o PartOf(kinds[i])])
    \o "--b1--\n"

KindSeqs ==
    UNION { [1..n -> {"plain", "html", "png", "nested"}] : n \in 1..MaxParts }

ExtractInit ==
    LET
        \* Messages whose line ends mix LF and CRLF, or are missing: a header line,
        \* two line ends, a line, two line ends, a line.
        MixedInputs ==
            { "From: a" \o e1 \o e2 \o "Hi" \o e3 \o e4 \o "bob\n" :
                e1 \in {"", "\n", "\r\n"}, e2 \in {"", "\n", "\r\n"},
                e3 \in {"", "\n", "\r\n"}, e4 \in {"", "\n", "\r\n"} }
    IN
    /\ eml_content \in Messages \cup MixedInputs
                       \cup { TreeMessage(kinds) : kinds \in KindSeqs }
    /\ sections = None
    /\ latest_version = None
    /\ exported = None
    /\ job = [status |-> "DELIVERED", sections |-> << >>]
    /\ annotations = << >>
    /\ draft = << >>
    /\ qa_draft = << >>
    /\ output = Response("none", 0)

ExtractNext ==
    \/ get_raw_content
    \/ _deidentify_job

ExtractSpec == ExtractInit /\ [][ExtractNext]_vars

(***************************************************************************)
(* Reassembly alone: deidentify_and_reassemble called with sections and    *)
(* spans of any kind (overlapping, nested, touching, empty, in any order;  *)
(* a section list that lacks the section of a text leaf).                  *)
(***************************************************************************)
ReassembleInit ==
    /\ eml_content \in
         { "From: a\nContent-Transfer-Encoding: 7bit\n\nHi bob\n",
           "From: a\nContent-Type: multipart/alternative; boundary=\"b1\"\n\n--b1\n\nHi\n--b1\nContent-Type: text/html\n\n<p>Hi</p>\n--b1--\n",
           TreeMessage(<<"png", "nested">>) }
    \* the sections of the message, or those sections without one body section
    /\ \E drop \in 1..MaxParts :
          sections = <<SelectSeq(extract_sections(eml_content),
                                 LAMBDA sec : sec.index # drop)>>
    \* at most MaxAnns spans [s, e], s <= e, of one body section
    /\ \E k \in 2..Len(extract_sections(eml_content)), n \in 0..MaxAnns :
          LET Offsets(content) == {0, 2, 3, Len(content)} \cap 0..Len(content)
              Spans(content) == { se \in Offsets(content) \X Offsets(content) :
                                    se[1] <= se[2] }
          IN  \E spans \in [1..n -> Spans(extract_sections(eml_content)[k].content)] :
                 latest_version
                   = <<[i \in 1..n |->
                         Annotation(k - 1, spans[i],
                                    IF i % 2 = 1 THEN "" ELSE "[greeting]")]>>
    /\ exported = None
    /\ job = [status |-> "DELIVERED", sections |-> << >>]
    /\ annotations = << >>
    /\ draft = << >>
    /\ qa_draft = << >>
    /\ output = Response("none", 0)

\* deidentify_and_reassemble(raw_content, sections, annotations_by_section):
\* what it returns, and on the way the result of _apply_replacements for
\* each section and the message as _deidentify_multipart leaves it.
Reassemble ==
    /\ exported = None
    /\ \E fresh \in FreshBoundaries :
          exported' = <<deidentify_and_reassemble(eml_content, sections[1],
                                                  latest_version[1], fresh)>>
    /\ LET Walked(msg, secs) ==
               [handler |-> "deidentify_and_reassemble",
                replaced |->
                   [k \in 1..Len(secs) |->
                      _apply_replacements(
                          secs[k].content,
                          group_annotations_by_section(latest_version[1],
                                                       secs[k].index))],
                walked |->
                   IF is_multipart(msg)
                   THEN _deidentify_multipart(
                            msg,
                            SelectSeq(secs, LAMBDA sec : sec.section_type # "HEADERS"),
                            latest_version[1])
                   ELSE msg]
       IN  output' = Walked(message_from_string(eml_content), sections[1])
    /\ UNCHANGED <<eml_content, sections, latest_version, job, annotations,
                   draft, qa_draft>>

ReassembleSpec == ReassembleInit /\ [][Reassemble]_vars

(***************************************************************************)
(* core/eml_normalizer.py: the decoded view of a raw message and the map   *)
(* from raw offsets to offsets of that view.                               *)
(***************************************************************************)
\* re.finditer(r"\r?\n\r?\n", s): the ends of the matches from p on.
RECURSIVE blank_lines(_, _)
blank_lines(s, p) ==
    LET At(i) == IF i < Len(s) THEN Char(s, i + 1) ELSE ""
        Second(q) == IF At(q) = "\r" /\ At(q + 1) = "\n" THEN q + 2
                     ELSE IF At(q) = "\n" THEN q + 1 ELSE -1
        First(q) == IF At(q) = "\r"
                    THEN (IF At(q + 1) = "\n" THEN Second(q + 2) ELSE -1)
                    ELSE IF At(q) = "\n" THEN Second(q + 1) ELSE -1
        Found(hits) ==
            IF hits = {} THEN << >>
            ELSE <<First(CHOOSE q \in hits : \A h \in hits : q <= h)>>
                 \o blank_lines(s, First(CHOOSE q \in hits : \A h \in hits : q <= h))
    IN  Found({ q \in p..(Len(s) - 1) : First(q) # -1 })

\* re.compile(r"Content-Transfer-Encoding:\s*" + re.escape(cte),
\* re.IGNORECASE).finditer(s): the spans <<start, end>> of the matches from
\* p on.
RECURSIVE cte_matches(_, _, _)
cte_matches(s, cte, p) ==
    LET RECURSIVE Spaces(_)
        Spaces(q) == IF q < Len(s) /\ IsSpace(Char(s, q + 1))
                     THEN Spaces(q + 1) ELSE q
        Value(q) == IF lower(PySlice(s, q, q + Len(cte))) = cte THEN q + Len(cte) ELSE -1
        End(q) == IF lower(PySlice(s, q, q + 26)) = "content-transfer-encoding:"
                  THEN Value(Spaces(q + 26)) ELSE -1
        Matched(q) == <<<<q, End(q)>>>> \o cte_matches(s, cte, End(q))
        Found(hits) ==
            IF hits = {} THEN << >>
            ELSE Matched(CHOOSE q \in hits : \A h \in hits : q <= h)
    IN  Found({ q \in p..(Len(s) - 1) : End(q) # -1 })

\* _get_cte
_get_cte(msg) ==
    LET Value(cte) == IF cte = None THEN "" ELSE lower(strip(cte[1]))
    IN  Value(get(msg, "Content-Transfer-Encoding"))

\* _decode_payload: the decoded text, or None when decoding raises.
_decode_payload(encoded_text, cte, charset) ==
    LET Data(stripped) ==
            replace(replace(replace(replace(stripped, "\n", ""), "\r", ""), " ", ""), "\t", "")
        Decoded(stripped) ==
            IF stripped = "" THEN <<"">>
            ELSE IF cte = "base64"
                 THEN (IF Len(Data(stripped)) % 4 # 0 \/ ~KnownCharset(charset) THEN None
                       ELSE <<decode(b64decode(Data(stripped)), charset)>>)
            ELSE IF cte = "quoted-printable"
                 THEN (IF ~KnownCharset(charset) THEN None
                       ELSE <<decode(decodestring(encode(stripped, "ascii")), charset)>>)
            ELSE None
    IN  Decoded(strip(encoded_text))

\* The replacement record of a part.
Replacement_(body_start, body_end, decoded_text, cte_span) ==
    [body_start |-> body_start, body_end |-> body_end, decoded_text |-> decoded_text,
     cte_start |-> cte_span[1], cte_end |-> cte_span[2],
     cte_replacement |-> "Content-Transfer-Encoding: 8bit"]

\* Is the part a text/* part with a base64 or quoted-printable body?
IsEncodedText(msg) ==
    /\ startswith(get_content_type(msg), "text/")
    /\ _get_cte(msg) \in {"base64", "quoted-printable"}

\* msg.get_content_charset() or "utf-8"
CharsetOf(msg) ==
    LET Or(charset) == IF charset = None \/ charset = <<"">> THEN "utf-8" ELSE charset[1]
    IN  Or(get_content_charset(msg))

\* _build_single_part_replacement: None, or the replacement in a tuple.
_build_single_part_replacement(raw_content, msg) ==
    LET Built(body_start, decoded_text, ctes) ==
            IF decoded_text = None \/ ctes = << >> THEN None
            ELSE <<Replacement_(body_start, Len(raw_content), decoded_text[1], ctes[1])>>
        Body(seps) ==
            IF seps = << >> THEN None
            ELSE Built(seps[1],
                       _decode_payload(PySlice(raw_content, seps[1], Len(raw_content)),
                                       _get_cte(msg), CharsetOf(msg)),
                       cte_matches(PySlice(raw_content, 0, seps[1]), _get_cte(msg), 0))
    IN  IF ~IsEncodedText(msg) THEN None ELSE Body(blank_lines(raw_content, 0))

\* _collect_part_replacements: the list with the replacements of the encoded
\* text parts of msg appended.
RECURSIVE _collect_part_replacements(_, _, _)
_collect_part_replacements(raw_content, msg, replacements) ==
    LET RECURSIVE Parts(_, _)
        Parts(i, reps) ==
            IF i > Len(msg.payload) THEN reps
            ELSE Parts(i + 1, _collect_part_replacements(raw_content, msg.payload[i], reps))
        Appended(body_start, body_end, decoded_text, ctes, region_start) ==
            IF decoded_text = None \/ ctes = << >> THEN replacements
            ELSE IF \E k \in 1..Len(replacements) :
                       /\ body_start < replacements[k].body_end
                       /\ body_end > replacements[k].body_start
                 THEN replacements
            ELSE Append(replacements,
                        Replacement_(body_start, body_end, decoded_text[1],
                                     <<region_start + ctes[Len(ctes)][1],
                                       region_start + ctes[Len(ctes)][2]>>))
        Bounded(body_start, body_end) ==
            Appended(body_start, body_end,
                     _decode_payload(PySlice(raw_content, body_start, body_end),
                                     _get_cte(msg), CharsetOf(msg)),
                     cte_matches(PySlice(raw_content, Max(0, body_start - 500), body_start),
                                 _get_cte(msg), 0),
                     Max(0, body_start - 500))
        Ended(body_start, from, boundary) ==
            Bounded(body_start,
                    IF boundary = -1 THEN Len(raw_content)
                    ELSE IF boundary > 0 /\ Char(raw_content, from + boundary) = "\r"
                         THEN from + boundary - 1
                    ELSE from + boundary)
        Started(chunk_pos, search_chunk, blanks) ==
            IF blanks = << >> THEN replacements
            ELSE Ended(blanks[Len(blanks)], chunk_pos + Len(search_chunk),
                       find(PySlice(raw_content, chunk_pos + Len(search_chunk),
                                    Len(raw_content)), "\n--"))
        Located(chunk_pos, search_chunk) ==
            IF chunk_pos = -1 THEN replacements
            ELSE Started(chunk_pos, search_chunk,
                         blank_lines(PySlice(raw_content, 0, chunk_pos), 0))
        Searched(payload_lines) ==
            LET Chunk(search_chunk, search_chunk_crlf) ==
                    IF search_chunk = "" THEN replacements
                    ELSE IF find(raw_content, search_chunk) # -1
                         THEN Located(find(raw_content, search_chunk), search_chunk)
                    ELSE Located(find(raw_content, search_chunk_crlf), search_chunk)
            IN  Chunk(strip(join("\n", SubSeq(payload_lines, 1, IF Len(payload_lines) < 3 THEN Len(payload_lines) ELSE 3))),
                      strip(join("\r\n", SubSeq(payload_lines, 1, IF Len(payload_lines) < 3 THEN Len(payload_lines) ELSE 3))))
    IN  IF is_multipart(msg) THEN Parts(1, replacements)
        ELSE IF ~IsEncodedText(msg) THEN replacements
        ELSE IF msg.kind # "str" \/ strip(msg.payload) = "" THEN replacements
        ELSE Searched(split(strip(msg.payload), "\n"))

\* sorted(items, key=lambda r: r[key]): a stable sort of records by a
\* field, ascending.
sorted_by(items, key) ==
    LET Rank(k) ==
            Cardinality({ j \in 1..Len(items) :
                            \/ items[j][key] < items[k][key]
                            \/ items[j][key] = items[k][key] /\ j < k })
    IN  [r \in 1..Len(items) |-> items[CHOOSE k \in 1..Len(items) : Rank(k) = r - 1]]

\* normalize_eml: <<normalized_content, has_encoded_parts>>.
normalize_eml(raw_content) ==
    LET RECURSIVE Substituted(_, _, _)
        \* _replace_cte_header: pattern.sub(r"\g<1>8bit", header_text)
        Substituted(header_text, cte, matches) ==
            IF matches = << >> THEN header_text
            ELSE LET Last(span) ==
                        Substituted(PySlice(header_text, 0, span[2] - Len(cte)) \o "8bit"
                                      \o PySlice(header_text, span[2], Len(header_text)),
                                    cte, SubSeq(matches, 1, Len(matches) - 1))
                 IN  Last(matches[Len(matches)])
        RECURSIVE Applied(_, _)
        Applied(result, reps) ==
            IF reps = << >> THEN result
            ELSE LET Body(rep) == PySlice(result, 0, rep.body_start) \o rep.decoded_text
                                  \o PySlice(result, rep.body_end, Len(result))
                     Header(rep, text) == PySlice(text, 0, rep.cte_start) \o rep.cte_replacement
                                          \o PySlice(text, rep.cte_end, Len(text))
                 IN  Applied(Header(Head(reps), Body(Head(reps))), Tail(reps))
        \* _normalize_single_part
        Single(msg, seps) ==
            LET Replaced(body_start, decoded_text) ==
                    IF decoded_text = None THEN <<raw_content, TRUE>>
                    ELSE <<Substituted(PySlice(raw_content, 0, body_start), _get_cte(msg),
                                       cte_matches(PySlice(raw_content, 0, body_start),
                                                   _get_cte(msg), 0))
                             \o decoded_text[1], TRUE>>
            IN  IF ~IsEncodedText(msg) \/ seps = << >> THEN <<raw_content, FALSE>>
                ELSE Replaced(seps[1],
                              _decode_payload(PySlice(raw_content, seps[1], Len(raw_content)),
                                              _get_cte(msg), CharsetOf(msg)))
        \* replacements.sort(key=lambda r: r["body_start"], reverse=True), for
        \* bodies that start at different offsets
        Descending(reps) == [i \in 1..Len(reps) |-> reps[Len(reps) + 1 - i]]
        \* _normalize_multipart
        Multi(replacements) ==
            IF replacements = << >> THEN <<raw_content, FALSE>>
            ELSE <<Applied(raw_content,
                           Descending(sorted_by(replacements, "body_start"))), TRUE>>
        Parsed(msg) ==
            IF is_multipart(msg)
            THEN Multi(_collect_part_replacements(raw_content, msg, << >>))
            ELSE Single(msg, blank_lines(raw_content, 0))
    IN  Parsed(message_from_string(raw_content))

\* _build_qp_offset_table: entry i + 1 is table[i].
_build_qp_offset_table(body, charset) ==
    LET
        \* _is_hex_char
        _is_hex_char(c) == c # "" /\ contains("0123456789ABCDEFabcdef", c)
        At(i) == IF i < Len(body) THEN Char(body, i + 1) ELSE ""
        \* pass 1: raw position -> decoded byte position
        RECURSIVE ByteTable(_, _)
        ByteTable(i, byte_pos) ==
            IF i >= Len(body) THEN <<byte_pos>>
            ELSE IF At(i) = "=" /\ i + 1 < Len(body) /\ At(i + 1) = "\n"
                 THEN <<byte_pos, byte_pos>> \o ByteTable(i + 2, byte_pos)
            ELSE IF At(i) = "=" /\ i + 2 < Len(body)
                    /\ _is_hex_char(At(i + 1)) /\ _is_hex_char(At(i + 2))
                 THEN <<byte_pos, byte_pos, byte_pos>> \o ByteTable(i + 3, byte_pos + 1)
            ELSE <<byte_pos>> \o ByteTable(i + 1, byte_pos + 1)
        \* pass 2: the codepoint index of each byte of the re-encoded text
        RECURSIVE ByteToChar(_, _)
        ByteToChar(decoded_str, char_idx) ==
            IF char_idx >= Len(decoded_str) THEN << >>
            ELSE [b \in 1..Len(encode(Char(decoded_str, char_idx + 1), charset)) |-> char_idx]
                 \o ByteToChar(decoded_str, char_idx + 1)
        \* pass 3
        Composed(byte_table, written, decoded_len, char_count) ==
            LET Entry(b) == IF b < Len(written) THEN written[b + 1] ELSE char_count
            IN  [i \in 1..Len(byte_table) |->
                    Entry(IF byte_table[i] < decoded_len THEN byte_table[i] ELSE decoded_len)]
        Decoded(decoded_bytes) ==
            Composed(ByteTable(0, 0),
                     ByteToChar(decode(decoded_bytes, charset), 0),
                     Len(decoded_bytes),
                     Len(decode(decoded_bytes, charset)))
    IN  Decoded(decodestring(encode(body, "ascii")))

\* build_raw_to_normalized_offset_map: the event list of the map, two events
\* for each replacement, sorted by start.
offset_events(raw_content, replacements) ==
    LET
        \* re.search(r"charset=[\"']?([^\"';\s]+)", region, re.IGNORECASE): the
        \* charset named first in the region, "utf-8" when there is none.
        charset_near(region, p) ==
            LET At(i) == IF i < Len(region) THEN Char(region, i + 1) ELSE ""
                RECURSIVE Run(_)
                Run(q) == IF At(q) = "" \/ At(q) \in {"\"", "'", ";"} \/ IsSpace(At(q))
                          THEN "" ELSE At(q) \o Run(q + 1)
                Name(q) == Run(IF At(q + 8) \in {"\"", "'"} THEN q + 9 ELSE q + 8)
                Found(hits) ==
                    IF hits = {} THEN "utf-8"
                    ELSE Name(CHOOSE q \in hits : \A h \in hits : q <= h)
            IN  Found({ q \in p..(Len(region) - 1) :
                          lower(PySlice(region, q, q + 8)) = "charset=" /\ Name(q) # "" })
        \* _to_stripped_offset
        Stripped(pos) == pos - count(PySlice(raw_content, 0, pos), "\r")
        Body(rep, raw_body, is_qp) ==
            [type |-> "body",
             start |-> Stripped(rep.body_start), end |-> Stripped(rep.body_end),
             replacement_len |-> 0,
             decoded_stripped_len |-> Len(replace(rep.decoded_text, "\r", "")),
             qp_map |-> IF is_qp
                        THEN <<_build_qp_offset_table(
                                 strip(raw_body),
                                 charset_near(PySlice(raw_content, Max(0, rep.cte_start - 300),
                                                      rep.cte_start + 300), 0))>>
                        ELSE None,
             content_start |-> IF is_qp THEN Len(raw_body) - Len(lstrip(raw_body)) ELSE 0,
             content_end |-> IF is_qp
                             THEN Len(raw_body) - Len(lstrip(raw_body)) + Len(strip(raw_body))
                             ELSE Stripped(rep.body_end) - Stripped(rep.body_start)]
        Cte(rep) ==
            [type |-> "cte",
             start |-> Stripped(rep.cte_start), end |-> Stripped(rep.cte_end),
             replacement_len |-> Len(rep.cte_replacement),
             decoded_stripped_len |-> 0, qp_map |-> None,
             content_start |-> 0, content_end |-> 0]
        RECURSIVE Events(_)
        Events(reps) ==
            IF reps = << >> THEN << >>
            ELSE <<Cte(Head(reps)),
                   Body(Head(reps),
                        PySlice(replace(raw_content, "\r", ""),
                                Stripped(Head(reps).body_start), Stripped(Head(reps).body_end)),
                        contains(lower(PySlice(raw_content, Head(reps).cte_start,
                                               Head(reps).cte_end)), "quoted-printable"))>>
                 \o Events(Tail(reps))
    IN  sorted_by(Events(sorted_by(replacements, "body_start")), "start")

\* build_raw_to_normalized_offset_map.map_fn, from event k on.
RECURSIVE map_fn(_, _, _, _)
map_fn(events, k, raw_offset, cumulative_delta) ==
    LET Min(a, b) == IF a < b THEN a ELSE b
        DecodedLocal(event, local_offset) ==
            IF event.qp_map # None
            THEN (IF local_offset < event.content_start THEN 0
                  ELSE IF local_offset >= event.content_end THEN event.decoded_stripped_len
                  ELSE Min(event.qp_map[1][1 + Min(local_offset - event.content_start,
                                                   Len(event.qp_map[1]) - 1)],
                           event.decoded_stripped_len))
            ELSE Min((local_offset * event.decoded_stripped_len)
                       \div Max(1, event.end - event.start),
                     event.decoded_stripped_len)
        At(event) ==
            IF raw_offset < event.start THEN raw_offset - cumulative_delta
            ELSE IF event.type = "cte"
                 THEN (IF raw_offset < event.end THEN event.start - cumulative_delta
                       ELSE map_fn(events, k + 1, raw_offset,
                                   cumulative_delta + (event.end - event.start)
                                     - event.replacement_len))
            ELSE IF raw_offset <= event.end
                 THEN event.start - cumulative_delta
                      + DecodedLocal(event, raw_offset - event.start)
            ELSE map_fn(events, k + 1, raw_offset,
                        cumulative_delta + (event.end - event.start)
                          - event.decoded_stripped_len)
    IN  IF k > Len(events) THEN raw_offset - cumulative_delta ELSE At(events[k])

\* build_raw_to_normalized_offset_map: norm_stripped and the events that
\* map_fn closes over (none for the identity map).
build_raw_to_normalized_offset_map(raw_content) ==
    LET Mapped(normalized, msg) ==
            [norm_stripped |-> replace(normalized[1], "\r", ""),
             events |->
                IF ~normalized[2] THEN << >>
                ELSE IF is_multipart(msg)
                     THEN offset_events(raw_content,
                                        _collect_part_replacements(raw_content, msg, << >>))
                ELSE offset_events(raw_content,
                                   _build_single_part_replacement(raw_content, msg))]
    IN  Mapped(normalize_eml(raw_content), message_from_string(raw_content))

\* The raw messages that are normalised: encoded and plain single parts,
\* multipart messages with encoded text parts, a signature line in an
\* encoded body, and a body that quotes a transfer encoding field.
NormalizeInputs ==
    { "Content-Type: text/plain; charset=utf-8\nContent-Transfer-Encoding: quoted-printable\n\nH=C3=A9llo=\n bob\n",
      "Content-Transfer-Encoding: base64\nContent-Type: text/plain\n\nSGkgYm9iDQo=\n",
      "Content-Transfer-Encoding: quoted-printable\r\n\r\na=3Db\r\n",
      "From: a\n\nHi\n",
      "Content-Type: text/html\nContent-Transfer-Encoding:\n quoted-printable\n\n =E9=C3=A9 \n",
      "Content-Type: multipart/mixed; boundary=b\n\n--b\nContent-Transfer-Encoding: quoted-printable\n\na=3Db\n--b\nContent-Type: text/html\nContent-Transfer-Encoding: base64\n\nSGkgYm9i\n--b--\n",
      "Content-Type: multipart/mixed; boundary=b\r\n\r\n--b\r\nContent-Transfer-Encoding: quoted-printable\r\n\r\na=3Db\r\n--b\r\nContent-Type: text/html\r\nContent-Transfer-Encoding: base64\r\n\r\nSGkgYm9i\r\n--b--\r\n",
      "Content-Type: multipart/mixed; boundary=b\n\n--b\nContent-Transfer-Encoding: quoted-printable\n\nsee Content-Transfer-Encoding: base64 there\n--b\n\nSGkgYm9i\n--b\nContent-Transfer-Encoding: base64\n\nSGkgYm9i\n--b--\n",
      "Content-Type: multipart/mixed; boundary=b\n\n--b\nContent-Transfer-Encoding: quoted-printable\n\nHi=\n\n-- \nbob\n--b--\n",
      "Content-Type: multipart/mixed; boundary=b\n\n--b\nContent-Type: image/png\nContent-Transfer-Encoding: base64\n\niVBORw0K\n--b\nContent-Transfer-Encoding: base64\n\nSGk=\n--b--\n" }

NormalizeInit ==
    /\ eml_content \in NormalizeInputs
    /\ sections = None /\ latest_version = None /\ exported = None
    /\ job = [status |-> "UPLOADED", sections |-> << >>]
    /\ annotations = << >> /\ draft = << >> /\ qa_draft = << >>
    /\ output = Response("none", 0)

\* offset_map = build_raw_to_normalized_offset_map(raw_content)
BuildOffsetMap ==
    /\ exported = None
    /\ exported' = <<build_raw_to_normalized_offset_map(eml_content)>>
    /\ UNCHANGED <<eml_content, sections, latest_version, store_vars>>

\* map_fn(raw_offset) for an offset of the raw content without its
\* carriage returns.
MapOffset ==
    /\ exported # None
    /\ \E raw_offset \in 0..Len(replace(eml_content, "\r", "")) :
          output' = [handler |-> "map_fn", raw_offset |-> raw_offset,
                     value |-> map_fn(exported[1].events, 1, raw_offset, 0)]
    /\ UNCHANGED <<eml_content, sections, latest_version, exported,
                   job, annotations, draft, qa_draft>>

NormalizeNext ==
    \/ BuildOffsetMap
    \/ MapOffset

NormalizeSpec == NormalizeInit /\ [][NormalizeNext]_vars

\* The quoted-printable bodies a table is built for: at most MaxTokens
\* tokens, each a character, a "=", a soft line break or a hex triplet.
MaxTokens == 3

RECURSIVE QpBodies(_)
QpBodies(n) ==
    LET QpTokens == {"a", "=", "=\n", "=C3", "=A9", "=FF"}
    IN
    IF n = 0 THEN {""}
    ELSE QpBodies(n - 1) \cup { body \o token : body \in QpBodies(n - 1), token \in QpTokens }

QpInit ==
    /\ eml_content \in QpBodies(MaxTokens)
    /\ sections \in {<<"utf-8">>, <<"us-ascii">>}
    /\ latest_version = None /\ exported = None
    /\ job = [status |-> "UPLOADED", sections |-> << >>]
    /\ annotations = << >> /\ draft = << >> /\ qa_draft = << >>
    /\ output = Response("none", 0)

\* qp_map = _build_qp_offset_table(raw_body_content, charset)
BuildQpTable ==
    /\ output.handler = "none"
    /\ output' = [handler |-> "_build_qp_offset_table",
                  table |-> _build_qp_offset_table(eml_content, sections[1])]
    /\ UNCHANGED <<eml_content, sections, latest_version, exported,
                   job, annotations, draft, qa_draft>>

QpSpec == QpInit /\ [][BuildQpTable]_vars

(***************************************************************************)
(* annotations/migrations/0003_migrate_offsets_to_sections.py: the spans   *)
(* of a job, stored with offsets into the flat normalized text, are given  *)
(* a section and offsets into its content.  A span is a record as in the   *)
(* stores above; a draft entry that has not been migrated has no           *)
(* section_index field (the key "sectionIndex" is absent).                 *)
(***************************************************************************)
\* _find_section_positions: <<section.index, global_start, global_end>> for
\* the sections from position k on.
RECURSIVE _find_section_positions(_, _, _, _)
_find_section_positions(flat_content, secs, k, search_start) ==
    LET Find(sub) ==
            LET At(pos) == IF pos = -1 THEN -1 ELSE search_start + pos
            IN  At(find(PySlice(flat_content, search_start, Len(flat_content)), sub))
        Position(content, pos) ==
            IF pos = -1 THEN _find_section_positions(flat_content, secs, k + 1, search_start)
            ELSE <<<<secs[k].index, pos, pos + Len(content)>>>>
                 \o _find_section_positions(flat_content, secs, k + 1, pos + Len(content))
        Section(content) ==
            IF content = "" THEN _find_section_positions(flat_content, secs, k + 1, search_start)
            ELSE IF Find(content) # -1 THEN Position(content, Find(content))
            ELSE Position(content, Find(PySlice(content, 0, 100)))
    IN  IF k > Len(secs) THEN << >> ELSE Section(secs[k].content)

\* _map_annotation_to_section: None, or <<section_index, local_start,
\* local_end>> for the first section that holds the range.
_map_annotation_to_section(ann_start, ann_end, section_positions) ==
    LET Holding == { k \in 1..Len(section_positions) :
                       /\ ann_start >= section_positions[k][2]
                       /\ ann_end <= section_positions[k][3] }
        Local(p) == <<p[1], ann_start - p[2], ann_end - p[2]>>
    IN  IF Holding = {} THEN None
        ELSE Local(section_positions[CHOOSE k \in Holding : \A h \in Holding : k <= h])

\* _text_search_in_sections: every occurrence of the text, section by
\* section.
_text_search_in_sections(original_text, secs) ==
    LET Hits(content) ==
            { pos \in 0..(Len(content) - Len(original_text)) :
                PySlice(content, pos, pos + Len(original_text)) = original_text }
        RECURSIVE Ordered(_, _)
        Ordered(index, hits) ==
            IF hits = {} THEN << >>
            ELSE LET First(pos) == <<<<index, pos, pos + Len(original_text)>>>>
                                   \o Ordered(index, hits \ {pos})
                 IN  First(CHOOSE pos \in hits : \A h \in hits : pos <= h)
        RECURSIVE Sections(_)
        Sections(k) ==
            IF k > Len(secs) THEN << >>
            ELSE (IF secs[k].content = "" THEN << >>
                  ELSE Ordered(secs[k].index, Hits(secs[k].content)))
                 \o Sections(k + 1)
    IN  Sections(1)

\* section_content_map.get(section_index, "")
section_content(secs, section_index) ==
    LET Named == { k \in 1..Len(secs) : secs[k].index = section_index }
    IN  IF Named = {} THEN "" ELSE secs[CHOOSE k \in Named : \A h \in Named : k >= h].content

\* _pick_best_match: the match whose surroundings agree best with the
\* surroundings of the old offset, the nearest one among equals.
_pick_best_match(matches, global_offset, section_positions, norm_stripped, secs) ==
    LET CONTEXT_LEN == 20
        infinity == Len(norm_stripped) + 1000000
        Abs(n) == IF n < 0 THEN 0 - n ELSE n
        Smaller(a, b) == IF a < b THEN a ELSE b
        RECURSIVE Suffix(_, _, _)
        Suffix(old, cand, i) ==
            IF i <= Smaller(Len(old), Len(cand))
               /\ Char(old, Len(old) + 1 - i) = Char(cand, Len(cand) + 1 - i)
            THEN 1 + Suffix(old, cand, i + 1) ELSE 0
        RECURSIVE Prefix(_, _, _)
        Prefix(old, cand, i) ==
            IF i <= Smaller(Len(old), Len(cand)) /\ Char(old, i) = Char(cand, i)
            THEN 1 + Prefix(old, cand, i + 1) ELSE 0
        Score(m, content, global_end) ==
            Suffix(PySlice(norm_stripped, Max(0, global_offset - CONTEXT_LEN), global_offset),
                   PySlice(content, Max(0, m[2] - CONTEXT_LEN), m[2]), 1)
            + Prefix(PySlice(norm_stripped, global_end, global_end + CONTEXT_LEN),
                     PySlice(content, m[3], m[3] + CONTEXT_LEN), 1)
        Distance(m) ==
            LET Starts == { k \in 1..Len(section_positions) : section_positions[k][1] = m[1] }
            IN  IF Starts = {} THEN infinity
                ELSE Abs(section_positions[CHOOSE k \in Starts : \A h \in Starts : k >= h][2]
                         + m[2] - global_offset)
        RECURSIVE Best(_, _, _, _)
        Best(i, best, best_score, best_distance) ==
            IF i > Len(matches) THEN best
            ELSE LET Scored(score, distance) ==
                        IF score > best_score \/ (score = best_score /\ distance < best_distance)
                        THEN Best(i + 1, matches[i], score, distance)
                        ELSE Best(i + 1, best, best_score, best_distance)
                 IN  Scored(Score(matches[i], section_content(secs, matches[i][1]),
                                  global_offset + matches[1][3] - matches[1][2]),
                            Distance(matches[i]))
    IN  Best(1, matches[1], -1, infinity)

\* The body of the loop over the spans of a job, in
\* migrate_annotations_forward, _migrate_drafts and _migrate_qa_drafts: the
\* span with its section and local offsets, or with section index -1 when
\* the position and the text search both fail.
migrated_annotation(ann, norm_stripped, secs, section_positions) ==
    LET Moved(m, text) ==
            [section_index |-> m[1], start_offset |-> m[2], end_offset |-> m[3],
             original_text |-> text]
        Failed ==
            [section_index |-> -1, start_offset |-> ann.start_offset,
             end_offset |-> ann.end_offset, original_text |-> ann.original_text]
        Picked(matches, search_text) ==
            IF Len(matches) = 1 THEN Moved(matches[1], search_text)
            ELSE IF Len(matches) > 1
                 THEN Moved(_pick_best_match(matches, ann.start_offset, section_positions,
                                             norm_stripped, secs), search_text)
            ELSE Failed
        Searched(matches) ==
            IF matches = << >> /\ contains(ann.original_text, "=\n")
            THEN Picked(_text_search_in_sections(replace(ann.original_text, "=\n", ""), secs),
                        replace(ann.original_text, "=\n", ""))
            ELSE Picked(matches, ann.original_text)
        Fallback ==
            IF ann.original_text # ""
            THEN Searched(_text_search_in_sections(ann.original_text, secs))
            ELSE Failed
        Positioned(result) ==
            IF result # None
               /\ PySlice(section_content(secs, result[1]), result[2], result[3])
                    = ann.original_text
            THEN Moved(result, ann.original_text)
            ELSE Fallback
    IN  Positioned(_map_annotation_to_section(ann.start_offset, ann.end_offset,
                                             section_positions))

\* _duplicate_body_annotations and _duplicate_draft_body_annotations: the
\* copies of the mapped body spans for the other body sections that hold
\* their text.
body_duplicates(anns, secs) ==
    LET Mapped_(ann) == ann.section_index > 0 /\ ann.original_text # ""
        RECURSIVE Duplicates(_, _, _, _)
        Duplicates(body_sections, i, j, existing) ==
            IF i > Len(anns) THEN << >>
            ELSE IF j > Len(body_sections) \/ ~Mapped_(anns[i])
                 THEN Duplicates(body_sections, i + 1, 1, existing)
            ELSE LET Copy(index, pos) ==
                        IF index = anns[i].section_index
                           \/ <<index, anns[i].original_text>> \in existing
                           \/ pos = -1
                        THEN Duplicates(body_sections, i, j + 1, existing)
                        ELSE <<[section_index |-> index, start_offset |-> pos,
                                end_offset |-> pos + Len(anns[i].original_text),
                                original_text |-> anns[i].original_text]>>
                             \o Duplicates(body_sections, i, j + 1,
                                           existing \cup {<<index, anns[i].original_text>>})
                 IN  Copy(body_sections[j].index,
                          find(body_sections[j].content, anns[i].original_text))
        Body(body_sections) ==
            IF Len(body_sections) <= 1 THEN << >>
            ELSE Duplicates(body_sections, 1, 1,
                            { <<anns[i].section_index, anns[i].original_text>> :
                                i \in { k \in 1..Len(anns) : Mapped_(anns[k]) } })
    IN  Body(SelectSeq(secs, LAMBDA sec : sec.section_type # "HEADERS"))

\* _migrate_drafts and _migrate_qa_drafts, for the list of one draft: the
\* list that is stored after the run.  The list is saved only when a span
\* was mapped or copied.
_migrate_drafts(anns, norm_stripped, secs, section_positions) ==
    LET Saved(mapped) ==
            IF (\E i \in 1..Len(mapped) : mapped[i].section_index # -1)
            THEN mapped \o body_duplicates(mapped, secs)
            ELSE anns
    IN  IF anns = << >> \/ "section_index" \in DOMAIN anns[1] THEN anns
        ELSE Saved([i \in 1..Len(anns) |->
                      migrated_annotation(anns[i], norm_stripped, secs, section_positions)])

\* The jobs that were annotated before sections existed.
LegacyMessages ==
    { "From: bob\n\nHi bob\n",
      "From: a\nContent-Type: text/plain; charset=utf-8\nContent-Transfer-Encoding: quoted-printable\n\nHi=\n bob=3D\n",
      "From: a\nContent-Type: multipart/alternative; boundary=\"b1\"\n\n--b1\n\nHi bob\n--b1\nContent-Type: text/html\n\n<p>Hi bob</p>\n--b1--\n" }

MigrateInit ==
    LET
        \* The spans stored for a job with offsets into the flat text: the
        \* occurrences of a word, spans that have drifted by one character, and a
        \* span whose text the message does not hold.
        LegacySpans(flat) ==
            LET Legacy(s, e, t) == [start_offset |-> s, end_offset |-> e, original_text |-> t]
                Occurrences_(t) == { pos \in 0..(Len(flat) - Len(t)) : PySlice(flat, pos, pos + Len(t)) = t }
            IN  UNION { { Legacy(pos, pos + Len(t), t), Legacy(pos + 1, pos + Len(t) + 1, t) } :
                          pos \in Occurrences_("bob"), t \in {"bob"} }
                \cup { Legacy(0, 2, "zz") }
    IN
    /\ eml_content \in LegacyMessages
    /\ sections = None /\ latest_version = None /\ exported = None
    /\ job = [status |-> "SUBMITTED_FOR_QA", sections |-> << >>]
    /\ \E flat \in { replace(normalize_eml(eml_content)[1], "\r", "") } :
       \E spans \in { LegacySpans(flat) } :
          \E n \in [1..3 -> 0..MaxSpans] :
             /\ n[1] + n[2] + n[3] <= MaxSpans
             /\ \E list \in [1..n[1] -> spans] :
                   annotations = [i \in 1..n[1] |->
                                    [section_index |-> 0,
                                     start_offset |-> list[i].start_offset,
                                     end_offset |-> list[i].end_offset,
                                     original_text |-> list[i].original_text]]
             /\ draft \in [1..n[2] -> spans]
             /\ qa_draft \in [1..n[3] -> spans]
    /\ output = Response("none", 0)

\* migrate_annotations_forward: the annotation records in the order of their
\* start offsets, their copies, then the drafts and the QA drafts.
migrate_annotations_forward ==
    /\ output.handler = "none"
    /\ LET Records(mapped, secs) == mapped \o body_duplicates(mapped, secs)
           Migrated(norm_stripped, secs, section_positions) ==
               /\ annotations' =
                     Records([i \in 1..Len(annotations) |->
                                migrated_annotation(
                                  sorted_by(annotations, "start_offset")[i],
                                  norm_stripped, secs, section_positions)], secs)
               /\ draft' = _migrate_drafts(draft, norm_stripped, secs, section_positions)
               /\ qa_draft' = _migrate_drafts(qa_draft, norm_stripped, secs, section_positions)
           Located(norm_stripped, secs) ==
               Migrated(norm_stripped, secs,
                        _find_section_positions(norm_stripped, secs, 1, 0))
       IN  Located(replace(normalize_eml(eml_content)[1], "\r", ""),
                   extract_sections(eml_content))
    /\ output' = Response("migrate_annotations_forward", 0)
    /\ UNCHANGED <<job, eml_content, sections, latest_version, exported>>

MigrateSpec == MigrateInit /\ [][migrate_annotations_forward]_vars

(***************************************************************************)
(* The commands over a corpus: annotations/management/commands/            *)
(* fix_utf16_offsets.py, trim_annotation_whitespace.py and                 *)
(* verify_annotation_offsets.py, run over the records, the drafts and the  *)
(* QA drafts of several jobs.  A draft is the JSON list that save_draft    *)
(* stored: an offset is <<"int", n>>, <<"str", n>> (the JSON string that   *)
(* spells n) or <<"null", 0>> (null, or no such key).                      *)
(***************************************************************************)
MaxEntries == 2      \* records, draft entries and QA draft entries of the corpus

\* One iteration of the inner loop of a draft loop, on the JSON values of
\* the entry.  "skipped" is the `continue` before stats["checked"];
\* "TypeError" is the exception Python raises when a str offset is compared
\* with an int (_utf16_offset_to_codepoint), added to an int
\* (_trim_whitespace) or used as a slice index.
EntryOutcome(command, doc, ann) ==
    LET JsonEntry(ann_) ==
            [ann_ EXCEPT !.startOffset = <<"int", ann_.startOffset>>,
                        !.endOffset = <<"int", ann_.endOffset>>]
        \* A draft entry with integer offsets as the loops read it, and back.
        PlainEntry(ann_) ==
            [ann_ EXCEPT !.startOffset = ann_.startOffset[2], !.endOffset = ann_.endOffset[2]]
        Relabel(out) == Outcome(out.outcome, ann, JsonEntry(out.ann))
        Text(content) ==
            CASE command = "fix_utf16_offsets" ->
                   IF content = None
                   THEN Outcome("verification_failed", ann, ann)
                   ELSE IF "str" \in {ann.startOffset[1], ann.endOffset[1]}
                   THEN IF content[1] = ""
                        THEN Outcome("verification_failed", ann, ann)
                        ELSE Outcome("TypeError", ann, ann)
                   ELSE Relabel(FixDraftEntry(doc, PlainEntry(ann)))
              [] command = "trim_annotation_whitespace" ->
                   IF "str" \in {ann.startOffset[1], ann.endOffset[1]}
                   THEN IF strip(ann.originalText) = ann.originalText
                        THEN Outcome("unchanged", ann, ann)
                        ELSE IF strip(ann.originalText) = ""
                        THEN Outcome("all_whitespace", ann, ann)
                        ELSE Outcome("TypeError", ann, ann)
                   ELSE Relabel(TrimDraftEntry(doc, PlainEntry(ann)))
              [] OTHER ->
                   IF content = None
                   THEN Outcome("section_missing", ann, ann)
                   ELSE IF "str" \in {ann.startOffset[1], ann.endOffset[1]}
                   THEN Outcome("TypeError", ann, ann)
                   ELSE IF PySlice(content[1], ann.startOffset[2],
                                   ann.endOffset[2]) = ann.originalText
                   THEN Outcome("matching", ann, ann)
                   ELSE Outcome("mismatched", ann, ann)
    IN  IF "null" \in {ann.startOffset[1], ann.endOffset[1]}
        THEN Outcome("skipped", ann, ann)
        ELSE Text(_get_sections_map(doc, ann.sectionIndex))

\* One iteration of the loop over the Annotation records.  The fields of a
\* record are integers; extract_sections raising is caught and counted.
RecordOutcome(command, doc, ann) ==
    CASE command = "fix_utf16_offsets" ->
           IF doc.extraction_raises
           THEN Outcome("verification_failed", ann, ann)
           ELSE FixAnnotation(doc, ann)
      [] command = "trim_annotation_whitespace" ->
           LET Caught(out) ==
                   IF doc.extraction_raises /\ out.outcome = "trimmed"
                   THEN Outcome("verification_failed", ann, ann) ELSE out
           IN  Caught(TrimAnnotation(doc, ann))
      [] OTHER ->
           LET Checked(content) ==
                   IF content = None
                   THEN Outcome("section_missing", ann, ann)
                   ELSE IF PySlice(content[1], ann.start_offset,
                                   ann.end_offset) = ann.original_text
                   THEN Outcome("matching", ann, ann)
                   ELSE Outcome("mismatched", ann, ann)
           IN  IF doc.extraction_raises
               THEN Outcome("extraction_failed", ann, ann)
               ELSE Checked(_get_sections_map(doc, ann.section_index))

\* One iteration of the outer loop of a draft loop: the outcomes of the
\* entries it scanned, whether an exception left the loop, and the list the
\* draft holds afterwards (draft.save runs after the inner loop).
ScanDraft(command, dry_run, doc, anns) ==
    LET Scanned(all, raising) ==
            LET last == IF raising = {} THEN Len(anns)
                        ELSE CHOOSE i \in raising : \A k \in raising : i <= k
                outcomes == SubSeq(all, 1, last)
            IN  [reached |-> TRUE, raised |-> raising # {}, outcomes |-> outcomes,
                 saved |-> IF raising # {} \/ dry_run THEN anns
                           ELSE IF command = "fix_utf16_offsets" THEN AfterList(outcomes)
                           ELSE IF command = "trim_annotation_whitespace"
                           THEN TrimmedList(outcomes)
                           ELSE anns]
        All(all) == Scanned(all, { i \in 1..Len(anns) : all[i].outcome = "TypeError" })
    IN  IF doc.extraction_raises
        THEN [reached |-> TRUE, raised |-> FALSE, saved |-> anns,
              outcomes |-> IF command = "verify_annotation_offsets"
                           THEN [i \in 1..Len(anns) |->
                                   Outcome("extraction_failed", anns[i], anns[i])]
                           ELSE << >>]
        ELSE All([i \in 1..Len(anns) |-> EntryOutcome(command, doc, anns[i])])

\* A draft loop over the drafts of the corpus, in iteration order: the
\* drafts after the one that raised are not reached.
ScanStore(command, dry_run, docs, lists) ==
    LET Upto(runs, raising) ==
            LET last == IF raising = {} THEN Len(docs)
                        ELSE CHOOSE d \in raising : \A k \in raising : d <= k
            IN  [raised |-> raising # {},
                 drafts |-> [d \in 1..Len(docs) |->
                               IF d <= last THEN runs[d]
                               ELSE [reached |-> FALSE, raised |-> FALSE,
                                     outcomes |-> << >>, saved |-> lists[d]]]]
        Runs(runs) == Upto(runs, { d \in 1..Len(docs) : runs[d].raised })
    IN  Runs([d \in 1..Len(docs) |-> ScanDraft(command, dry_run, docs[d], lists[d])])

CorpusInit ==
    LET
        \* The entries a draft may hold: offsets in code points, in UTF-16 code
        \* units, around leading whitespace, in a section the job does not have,
        \* sent as JSON strings, or missing.
        CorpusEntries ==
            { [sectionIndex |-> e[1], startOffset |-> e[2], endOffset |-> e[3],
               originalText |-> e[4]] :
                e \in { <<1, <<"int", 2>>, <<"int", 5>>, "bob">>,
                        <<1, <<"int", 3>>, <<"int", 6>>, "bob">>,
                        <<1, <<"int", 1>>, <<"int", 5>>, " bob">>,
                        <<7, <<"int", 2>>, <<"int", 5>>, "bob">>,
                        <<1, <<"str", 2>>, <<"str", 5>>, "bob">>,
                        <<1, <<"str", 1>>, <<"str", 5>>, " bob">>,
                        <<1, <<"null", 0>>, <<"null", 0>>, "bob">> } }
        \* The jobs of the corpus: a header block and a text body each.
        CorpusDocs(raises) ==
            << [file_name |-> "a.eml", sections |-> <<"S: x", "| bob">>,
                extraction_raises |-> FALSE],
               [file_name |-> "b.eml", sections |-> <<"S: x", "| bob">>,
                extraction_raises |-> raises] >>
    IN
    /\ eml_content = "" /\ sections = None /\ latest_version = None /\ exported = None
    /\ \E raises \in BOOLEAN : job = CorpusDocs(raises)
    /\ \E n \in [1..5 -> 0..MaxEntries] :
          /\ n[1] + n[2] + n[3] + n[4] + n[5] <= MaxEntries
          /\ \E list \in [1..n[1] -> { e \in CorpusEntries : e.startOffset[1] = "int" }] :
             \E of \in [1..n[1] -> 1..2] :
                annotations = [i \in 1..n[1] |->
                                 [job |-> of[i], section_index |-> list[i].sectionIndex,
                                  start_offset |-> list[i].startOffset[2],
                                  end_offset |-> list[i].endOffset[2],
                                  original_text |-> list[i].originalText]]
          /\ \E first \in [1..n[2] -> CorpusEntries], second \in [1..n[3] -> CorpusEntries] :
                draft = <<first, second>>
          /\ \E first \in [1..n[4] -> CorpusEntries], second \in [1..n[5] -> CorpusEntries] :
                qa_draft = <<first, second>>
    /\ output = Response("none", 0)

\* Command.handle: the three loops in turn, then the summary.  An exception
\* that leaves a loop ends the run; what was saved before it stays saved.
\* The value is the stores and the report after the run.
handle(command, dry_run) ==
    LET Report(ann_out, draft_run, qa_run) ==
            [annotations |-> IF dry_run \/ command = "verify_annotation_offsets"
                             THEN annotations ELSE AfterList(ann_out),
             draft |-> [d \in 1..Len(job) |-> draft_run.drafts[d].saved],
             qa_draft |-> [d \in 1..Len(job) |-> qa_run.drafts[d].saved],
             output |-> [handler |-> command, code |-> 0, dry_run |-> dry_run,
                         annotations |-> ann_out, drafts |-> draft_run.drafts,
                         qa_drafts |-> qa_run.drafts,
                         summary |-> ~draft_run.raised /\ ~qa_run.raised]]
        Drafts(ann_out, draft_run) ==
            Report(ann_out, draft_run,
                   IF draft_run.raised
                   THEN [raised |-> FALSE,
                         drafts |-> [d \in 1..Len(job) |->
                                       [reached |-> FALSE, raised |-> FALSE,
                                        outcomes |-> << >>, saved |-> qa_draft[d]]]]
                   ELSE ScanStore(command, dry_run, job, qa_draft))
    IN  Drafts([i \in 1..Len(annotations) |->
                  RecordOutcome(command, job[annotations[i].job], annotations[i])],
               ScanStore(command, dry_run, job, draft))

handle_fix_utf16_offsets ==
    /\ \E dry_run \in BOOLEAN :
       \E run \in { handle("fix_utf16_offsets", dry_run) } :
          /\ annotations' = run.annotations
          /\ draft' = run.draft
          /\ qa_draft' = run.qa_draft
          /\ output' = run.output
    /\ UNCHANGED <<job, mail_vars>>

handle_trim_annotation_whitespace ==
    /\ \E dry_run \in BOOLEAN :
       \E run \in { handle("trim_annotation_whitespace", dry_run) } :
          /\ annotations' = run.annotations
          /\ draft' = run.draft
          /\ qa_draft' = run.qa_draft
          /\ output' = run.output
    /\ UNCHANGED <<job, mail_vars>>

\* verify_annotation_offsets writes nothing.
handle_verify_annotation_offsets ==
    /\ \E run \in { handle("verify_annotation_offsets", TRUE) } :
          /\ annotations' = run.annotations
          /\ draft' = run.draft
          /\ qa_draft' = run.qa_draft
          /\ output' = run.output
    /\ UNCHANGED <<job, mail_vars>>

CorpusNext ==
    \/ handle_fix_utf16_offsets
    \/ handle_trim_annotation_whitespace
    \/ handle_verify_annotation_offsets

CorpusSpec == CorpusInit /\ [][CorpusNext]_vars

(***************************************************************************)
(* Properties of the stores and the repair commands.                       *)
(***************************************************************************)
\* section.content[start:end] == text, for the section the span names.
SliceMatches(j, si, s, e, t) ==
    LET content == _get_sections_map(j, si)
    IN  content # None /\ PySlice(content[1], s, e) = t

Corrected(o) == o.outcome \in {"trimmed", "fixed"}

\* The text a command stores with a span it corrects: the stripped text for
\* a trim, the original text for a UTF-16 fix.
TextAfter(o, before_text) ==
    IF o.outcome = "trimmed" THEN strip(before_text) ELSE before_text

InList(x, list) == \E k \in 1..Len(list) : list[k] = x

\* C1: whenever the whitespace-trim command or the UTF-16 repair command
\* counts a span as trimmed / fixed, the corrected span satisfies
\* section.content[new_start:new_end] == the text stored after the
\* correction (the stripped text for a trim, the unchanged text for a fix),
\* in all three stores and after any sequence of runs; unless the run is a
\* dry run, the store holds the corrected span.
C1_CorrectedSpanSlicesToItsText ==
    /\ \A i \in 1..Len(output.annotations) :
         LET o == output.annotations[i]
         IN  Corrected(o) =>
               /\ SliceMatches(job, o.ann.section_index, o.ann.start_offset,
                               o.ann.end_offset, o.ann.original_text)
               /\ o.ann.original_text = TextAfter(o, o.before.original_text)
               /\ ~output.dry_run => annotations[i] = o.ann
    /\ \A i \in 1..Len(output.drafts) :
         LET o == output.drafts[i]
         IN  Corrected(o) =>
               /\ SliceMatches(job, o.ann.sectionIndex, o.ann.startOffset,
                               o.ann.endOffset, o.ann.originalText)
               /\ o.ann.originalText = TextAfter(o, o.before.originalText)
               /\ ~output.dry_run => InList(o.ann, draft)
    /\ \A i \in 1..Len(output.qa_drafts) :
         LET o == output.qa_drafts[i]
         IN  Corrected(o) =>
               /\ SliceMatches(job, o.ann.sectionIndex, o.ann.startOffset,
                               o.ann.endOffset, o.ann.originalText)
               /\ o.ann.originalText = TextAfter(o, o.before.originalText)
               /\ ~output.dry_run => InList(o.ann, qa_draft)

\* A UTF-16 repair run that fixed an Annotation record and a draft entry,
\* after an earlier trim had corrected that record.
C1_Witness ==
    /\ output.handler = "fix_utf16_offsets"
    /\ ~output.dry_run
    /\ \E i \in 1..Len(output.annotations) :
         /\ output.annotations[i].outcome = "fixed"
         /\ strip(output.annotations[i].ann.original_text)
              = output.annotations[i].ann.original_text
         /\ output.annotations[i].ann.start_offset > 0
    /\ \E i \in 1..Len(output.drafts) : output.drafts[i].outcome = "fixed"

\* The AnnotationSpan invariant of the data model.
SpanInvariant(j, ann) ==
    /\ 0 <= ann.start_offset
    /\ ann.start_offset < ann.end_offset
    /\ LET content == _get_sections_map(j, ann.section_index)
       IN  /\ content # None
           /\ ann.end_offset <= Len(content[1])
           /\ PySlice(content[1], ann.start_offset, ann.end_offset) = ann.original_text

\* C3: every span accepted at creation (annotator submission, QA-modified
\* annotations on accept) satisfies 0 <= start < end <= len(section.content)
\* and section.content[start:end] == original_text; a span that violates
\* this is rejected and never stored.
C3_AcceptedSpansAreValid ==
    (output.handler \in {"submit_annotation", "accept_annotation"} /\ output.code = 201)
        => \A i \in 1..Len(annotations) : SpanInvariant(job, annotations[i])

(***************************************************************************)
(* Properties of the export.                                               *)
(***************************************************************************)
\* The export has called deidentify_and_reassemble for the latest version.
Reassembled == latest_version # None /\ exported # None

\* The tag that stands for an annotation in the output.
TagOf(ann) == IF ann.tag # "" THEN ann.tag ELSE "[" \o ann.class_name \o "]"

\* The annotations of the exported version that lie in one section.
AnnotationsIn(section_index) ==
    { i \in 1..Len(latest_version[1]) :
        latest_version[1][i].section_index = section_index }

\* How often a text occurs in the contents of a list of sections.
RECURSIVE Occurrences(_, _)
Occurrences(secs, text) ==
    IF Len(secs) = 0 THEN 0
    ELSE count(secs[1].content, text) + Occurrences(Tail(secs), text)

\* The header fields of a message, without those that reassembly sets for
\* the transfer encoding of a part.
OtherFields(msg) ==
    SelectSeq(msg.headers,
              LAMBDA h : lower(h[1]) \notin {"content-type", "content-transfer-encoding"})

\* C2: for any message and any valid, pairwise non-overlapping annotations,
\* deidentify_and_reassemble returns an output in which every annotation
\* is replaced exactly once: each tag occurs in the header block and the
\* decoded text parts of the output as often as the version has annotations
\* with that tag, in whichever header line or body part they lie.
C2_EveryAnnotationReplacedOnce ==
    Reassembled =>
        /\ exported[1].raises = ""
        /\ LET Replaced(replaced) ==
                   \A i \in 1..Len(latest_version[1]) :
                       Occurrences(replaced, TagOf(latest_version[1][i]))
                         = Cardinality({ k \in 1..Len(latest_version[1]) :
                                           TagOf(latest_version[1][k])
                                             = TagOf(latest_version[1][i]) })
           IN  Replaced(extract_sections(exported[1].text))

\* C4: reassembly without spans preserves content.  When the version has no
\* annotation at all, or none for a section, every text part of the output
\* decodes to the content of the section extracted from the original, and
\* a header block without annotations keeps the values of its fields.
C4_NoSpansPreserveContent ==
    (Reassembled /\ exported[1].raises = "") =>
        LET Preserved(original, reassembled) ==
                /\ Len(reassembled) = Len(original)
                /\ \A i \in 2..Len(original) :
                      AnnotationsIn(i - 1) = {}
                          => reassembled[i].content = original[i].content
            Unspliced(msg, out) ==
                AnnotationsIn(0) = {} => OtherFields(out) = OtherFields(msg)
        IN  /\ Preserved(extract_sections(eml_content),
                         extract_sections(exported[1].text))
            /\ Unspliced(message_from_string(eml_content),
                         message_from_string(exported[1].text))

\* Two parsed messages have the same MIME tree: the same content type at
\* every node, the same number of parts in the same order, and the same
\* payload in every leaf that is not text.
RECURSIVE SameTree(_, _)
SameTree(msg, out) ==
    /\ get_content_type(out) = get_content_type(msg)
    /\ is_multipart(out) = is_multipart(msg)
    /\ IF is_multipart(msg) /\ is_multipart(out)
       THEN /\ Len(out.payload) = Len(msg.payload)
            /\ \A i \in 1..Len(msg.payload) :
                  i <= Len(out.payload) => SameTree(msg.payload[i], out.payload[i])
       ELSE startswith(get_content_type(msg), "text/") \/ out.payload = msg.payload

\* C5: for multipart input and any annotations, deidentify_and_reassemble
\* returns an output with the same MIME tree: the same multipart content
\* type, the same parts in the same order at every level, the payload of
\* every non-text leaf, and the boundary and the Content-Type field of the
\* message, which header annotations never alter.
C5_MultipartTreePreserved ==
    LET Preserved(msg) ==
            (Reassembled /\ is_multipart(msg)) =>
                /\ exported[1].raises = ""
                /\ LET Same(out) ==
                           /\ SameTree(msg, out)
                           /\ get_boundary(out) = get_boundary(msg)
                           /\ get(out, "content-type") = get(msg, "content-type")
                   IN  Same(message_from_string(exported[1].text))
    IN  Preserved(message_from_string(eml_content))

\* The line of a header block that holds an offset, counted from 1, and the
\* lines of the block.
LineOf(content, offset) == count(PySlice(content, 0, offset), "\n") + 1

HeaderLines(content) == split(content, "\n")

IsContinuationLine(line) == Len(line) > 0 /\ Char(line, 1) \in {" ", "\t"}

\* The name of the field that owns a line of the header block: the text
\* before the colon of the nearest line above that is not a continuation.
RECURSIVE OwnerName(_, _)
OwnerName(lines, k) ==
    IF k = 0 THEN ""
    ELSE IF IsContinuationLine(lines[k]) THEN OwnerName(lines, k - 1)
    ELSE PySlice(lines[k], 0, Max(find(lines[k], ":"), 0))

\* The annotated text of an annotation of the exported version.
AnnotatedText(ann) ==
    PySlice(extract_sections(eml_content)[ann.section_index + 1].content,
            ann.start_offset, ann.end_offset)

\* C6: a header annotation whose span lies on a continuation line (a line of
\* the header block that begins with a space or a tab) is replaced by its
\* tag: the annotated text no longer occurs in the output, and the value of
\* the header that owns the line, re-parsed from the output, contains the tag.
C6_ContinuationLineReplaced ==
    (Reassembled /\ exported[1].raises = "") =>
        LET Folded(header_content, out) ==
                \A i \in AnnotationsIn(0) :
                    LET Line(ann, lines, k) ==
                            IsContinuationLine(lines[k]) =>
                                /\ ~contains(exported[1].text, AnnotatedText(ann))
                                /\ \E h \in 1..Len(out.headers) :
                                      /\ lower(out.headers[h][1])
                                           = lower(OwnerName(lines, k))
                                      /\ contains(out.headers[h][2], TagOf(ann))
                    IN  Line(latest_version[1][i], HeaderLines(header_content),
                             LineOf(header_content, latest_version[1][i].start_offset))
        IN  Folded(extract_sections(eml_content)[1].content,
                   message_from_string(exported[1].text))

\* The fields of one name, in order.
FieldsNamed(headers, name) ==
    SelectSeq(headers, LAMBDA h : lower(h[1]) = lower(name))

\* The text of its line that precedes an offset of the header block.
LineBefore(content, offset) ==
    LET Last(parts) == parts[Len(parts)]
    IN  Last(split(PySlice(content, 0, offset), "\n"))

\* The annotation lies in the value of a field of that name, on the line
\* where the field starts.
InValueOf(ann, content, name) ==
    LET Before(line) ==
            /\ ~IsContinuationLine(line)
            /\ contains(line, ":")
            /\ lower(OwnerName(<<line>>, 1)) = lower(name)
    IN  Before(LineBefore(content, ann.start_offset))

\* Every field of the name carries an annotation of its own in its value,
\* and the version has no other header annotation.
EachOccurrenceAnnotated(msg, content, name) ==
    /\ Len(FieldsNamed(msg.headers, name)) >= 2
    /\ Cardinality(AnnotationsIn(0)) = Len(FieldsNamed(msg.headers, name))
    /\ \A i \in AnnotationsIn(0) : InValueOf(latest_version[1][i], content, name)
    /\ \A i, j \in AnnotationsIn(0) :
          i # j => LineOf(content, latest_version[1][i].start_offset)
                     # LineOf(content, latest_version[1][j].start_offset)

\* C7: when the header block holds several fields of one name and each of
\* them carries its own annotation, the output keeps as many fields of that
\* name in the same order, and each holds its own value with its own span
\* replaced by its own tag: the fields of that name are those of the header
\* text after the splice.
C7_DuplicateHeadersReplaced ==
    (Reassembled /\ exported[1].raises = "") =>
        LET Duplicates(msg, content, out) ==
                \A h \in 1..Len(msg.headers) :
                    EachOccurrenceAnnotated(msg, content, msg.headers[h][1]) =>
                        FieldsNamed(out.headers, msg.headers[h][1])
                          = FieldsNamed(message_from_string(
                                _apply_replacements(content,
                                    group_annotations_by_section(latest_version[1], 0))
                                \o "\n\n").headers,
                              msg.headers[h][1])
        IN  Duplicates(message_from_string(eml_content),
                       extract_sections(eml_content)[1].content,
                       message_from_string(exported[1].text))

\* The part of a message at a position of the MIME tree.
RECURSIVE PartAt(_, _)
PartAt(msg, path) ==
    IF Len(path) = 0 THEN msg
    ELSE PartAt(msg.payload[path[1] + 1], Tail(path))

\* The position of a field among the headers of a part, 0 when absent.
PositionOf(msg, name) ==
    LET Lowest(hits) == IF hits = {} THEN 0 ELSE CHOOSE h \in hits : \A g \in hits : h <= g
    IN  Lowest({ h \in 1..Len(msg.headers) : lower(msg.headers[h][1]) = lower(name) })

\* The encoding that reassembly applies to the payload of a section.
TargetCte(section) ==
    IF section.original_cte \in {"base64", "quoted-printable"}
    THEN section.original_cte ELSE "8bit"

\* C8: after reassembly the Content-Transfer-Encoding field of each text part
\* that was re-encoded is base64 when the section's encoding was base64,
\* quoted-printable when it was quoted-printable and 8bit in every other
\* case, and a field that the part already had keeps its position among the
\* headers of the part.
C8_CteNamesAppliedEncoding ==
    (Reassembled /\ exported[1].raises = "" /\ AnnotationsIn(0) = {}) =>
        LET Encoded(msg, original, out) ==
                \A k \in 2..Len(original) :
                    LET Part(before, after) ==
                            /\ get(after, "content-transfer-encoding")
                                 = <<TargetCte(original[k])>>
                            /\ PositionOf(before, "content-transfer-encoding") # 0
                                 => PositionOf(after, "content-transfer-encoding")
                                      = PositionOf(before, "content-transfer-encoding")
                    IN  Part(PartAt(msg, original[k].mime_path),
                             PartAt(out, original[k].mime_path))
        IN  Encoded(message_from_string(eml_content),
                    extract_sections(eml_content),
                    message_from_string(exported[1].text))

\* Example 3 of the specification: the span (section 1, 0, 5, "Hello") with
\* the tag "[greeting]" on the message of Example 1.
Example3 ==
    /\ eml_content = Example1
    /\ latest_version = << <<Annotation(1, <<0, 5>>, "[greeting]")>> >>

\* The version annotates body sections only.
OnlyBodyAnnotated ==
    /\ latest_version # None
    /\ Len(latest_version[1]) > 0
    /\ AnnotationsIn(0) = {}

C10_SectionsWellFormed ==
    sections # None =>
        /\ Len(sections[1]) >= 1
        /\ sections[1][1].section_type = "HEADERS"
        /\ \A i \in 1..Len(sections[1]) :
              /\ sections[1][i].index = i - 1
              /\ ~contains(sections[1][i].content, "\r")

\* Sections extracted from a message with carriage returns in the header
\* block and a body part.
C10_Witness ==
    /\ sections # None
    /\ Len(sections[1]) >= 2
    /\ contains(ExtractHeadersKeepingCr(eml_content), "\r")

(***************************************************************************)
(* Properties of the extraction.                                           *)
(***************************************************************************)
\* C11: the content of section 0 is the raw input before the earliest
\* occurrence of "\r\n\r\n" or "\n\n", without its carriage returns, and the
\* whole input without its carriage returns when it holds neither; also for
\* inputs that mix CRLF and LF line ends.
C11_HeadersEndAtFirstSeparator ==
    sections # None =>
        LET Before(crlf, lf) ==
                IF crlf = -1 /\ lf = -1 THEN eml_content
                ELSE IF crlf = -1 THEN PySlice(eml_content, 0, lf)
                ELSE IF lf = -1 THEN PySlice(eml_content, 0, crlf)
                ELSE PySlice(eml_content, 0, IF crlf < lf THEN crlf ELSE lf)
        IN  sections[1][1].content
              = replace(Before(find(eml_content, "\r\n\r\n"), find(eml_content, "\n\n")),
                        "\r", "")

\* The sections of Example 1 have been extracted.
C12_Witness == sections # None /\ eml_content = Example1

\* C12: for the input of Example 1, extract_sections returns two sections: a
\* HEADERS section with the content
\* "From: a@b.com\nContent-Type: text/plain; charset=utf-8", which ends with
\* the last header line and no line end, and a TEXT_PLAIN section with the
\* content "Hello\n".
C12_Example1Sections ==
    C12_Witness =>
        /\ Len(sections[1]) = 2
        /\ sections[1][1].section_type = "HEADERS"
        /\ sections[1][1].content
             = "From: a@b.com\nContent-Type: text/plain; charset=utf-8"
        /\ sections[1][2].section_type = "TEXT_PLAIN"
        /\ sections[1][2].content = "Hello\n"

\* C12 as stated: the content of the HEADERS section of Example 1 ends with
\* a newline.
C12_Example1HeadersEndWithNewline ==
    C12_Witness =>
        /\ Len(sections[1]) = 2
        /\ sections[1][1].section_type = "HEADERS"
        /\ sections[1][1].content
             = "From: a@b.com\nContent-Type: text/plain; charset=utf-8\n"
        /\ sections[1][2].section_type = "TEXT_PLAIN"
        /\ sections[1][2].content = "Hello\n"

\* The text leaves of a multipart/mixed message made of parts of these
\* kinds, in depth-first order: the position of each leaf in the tree, its
\* section type and its content.
RECURSIVE TextLeaves(_, _)
TextLeaves(kinds, i) ==
    IF i > Len(kinds) THEN << >>
    ELSE (CASE kinds[i] = "plain" ->
                  << [mime_path |-> <<i - 1>>, section_type |-> "TEXT_PLAIN",
                      content |-> "Hi"] >>
            [] kinds[i] = "html" ->
                  << [mime_path |-> <<i - 1>>, section_type |-> "TEXT_HTML",
                      content |-> "<!-- b1 ----></td>\n--b1x\n-- b1\nend"] >>
            [] kinds[i] = "png" -> << >>
            [] kinds[i] = "nested" ->
                  << [mime_path |-> <<i - 1, 0>>, section_type |-> "TEXT_PLAIN",
                      content |-> "Hi"],
                     [mime_path |-> <<i - 1, 1>>, section_type |-> "TEXT_HTML",
                      content |-> "<b>Hi</b>"] >>)
         \o TextLeaves(kinds, i + 1)

\* The body sections that have been extracted.
BodySections == Tail(sections[1])

\* C13: extract_sections returns one body section for each leaf whose
\* content type starts with text/, in depth-first order, and none for
\* another leaf; the mime_path of a section is the sequence of the positions
\* of the children on the way to its leaf, counted among all the siblings,
\* and it is empty for a message that is not multipart.
C13_OneSectionPerTextLeaf ==
    sections # None =>
        /\ \A kinds \in KindSeqs :
              eml_content = TreeMessage(kinds) =>
                  LET Found(leaves) ==
                          /\ Len(BodySections) = Len(leaves)
                          /\ \A k \in 1..Len(leaves) :
                                k <= Len(BodySections) =>
                                  /\ BodySections[k].mime_path = leaves[k].mime_path
                                  /\ BodySections[k].section_type
                                       = leaves[k].section_type
                  IN  Found(TextLeaves(kinds, 1))
        /\ ~is_multipart(message_from_string(eml_content)) =>
              /\ Len(BodySections) <= 1
              /\ \A k \in 1..Len(BodySections) : BodySections[k].mime_path = << >>
              /\ Len(BodySections) = 1
                   <=> startswith(get_content_type(message_from_string(eml_content)),
                                  "text/")

\* A message with a text leaf after an image and inside a nested multipart.
C13_Witness ==
    /\ sections # None
    /\ eml_content = TreeMessage(<<"png", "nested", "plain">>)
    /\ Len(BodySections) = 3

\* C14: the body of a part ends only at a line that is the boundary
\* delimiter: lines that hold dashes, or that start with the boundary and go
\* on ("--b1x"), end no part, so the section holds the whole body of the part
\* and the parts after it are those of the message.
C14_DashesEndNoPart ==
    sections # None =>
        \A kinds \in KindSeqs :
            eml_content = TreeMessage(kinds) =>
                LET Whole(leaves) ==
                        /\ Len(BodySections) = Len(leaves)
                        /\ \A k \in 1..Len(leaves) :
                              k <= Len(BodySections) =>
                                  BodySections[k].content = leaves[k].content
                IN  Whole(TextLeaves(kinds, 1))

\* An HTML part with dashes in its body, followed by another part.
C14_Witness ==
    /\ sections # None
    /\ eml_content = TreeMessage(<<"html", "plain">>)
    /\ Len(BodySections) = 2
    /\ contains(BodySections[1].content, "--b1x")

\* The label of a section type without a suffix.
BareLabel(section_type) ==
    IF section_type = "TEXT_PLAIN" THEN "Text Body"
    ELSE IF section_type = "TEXT_HTML" THEN "HTML Body"
    ELSE "text/" \o lower(PySlice(section_type, 5, Len(section_type))) \o " Body"

\* C15: among the body sections of an extraction the first section of a
\* type carries the bare label and the k-th section of that type, k >= 2,
\* the bare label followed by " (k)": the count is kept for each type.
C15_LabelsCountPerType ==
    sections # None =>
        \A i \in 1..Len(BodySections) :
            LET Counted(k, bare) ==
                    BodySections[i].label
                      = IF k = 1 THEN bare ELSE bare \o " (" \o str_int(k) \o ")"
            IN  Counted(Cardinality({ h \in 1..i : BodySections[h].section_type
                                                     = BodySections[i].section_type }),
                        BareLabel(BodySections[i].section_type))

\* A second plain text leaf after two HTML leaves.
C15_Witness ==
    /\ sections # None
    /\ eml_content = TreeMessage(<<"html", "nested", "plain">>)
    /\ Len(BodySections) = 4
    /\ BodySections[4].label = "Text Body (2)"

(***************************************************************************)
(* Properties of the two repair commands.                                  *)
(***************************************************************************)
\* The spans the last command run scanned, each with the store it is in, its
\* position in the store's list, the outcome counted for it and the span
\* before and after its loop iteration (draft entries in snake_case keys).
ScannedSpans ==
    { [store |-> "annotations", at |-> i, outcome |-> output.annotations[i].outcome,
       before |-> output.annotations[i].before, after |-> output.annotations[i].ann] :
        i \in 1..Len(output.annotations) }
    \cup
    { [store |-> "drafts", at |-> i, outcome |-> output.drafts[i].outcome,
       before |-> RequestList(<<output.drafts[i].before>>)[1],
       after |-> RequestList(<<output.drafts[i].ann>>)[1]] :
        i \in 1..Len(output.drafts) }
    \cup
    { [store |-> "qa_drafts", at |-> i, outcome |-> output.qa_drafts[i].outcome,
       before |-> RequestList(<<output.qa_drafts[i].before>>)[1],
       after |-> RequestList(<<output.qa_drafts[i].ann>>)[1]] :
        i \in 1..Len(output.qa_drafts) }

\* The spans a store holds now (draft entries in snake_case keys).
StoredSpans(store) ==
    IF store = "annotations" THEN annotations
    ELSE IF store = "drafts" THEN RequestList(draft)
    ELSE RequestList(qa_draft)

\* The code point index k whose prefix of k code points occupies n UTF-16
\* code units, or None when no prefix does.
ExactIndex(text, n) ==
    LET Exact == { k \in 0..Len(text) : Utf16Length(PySlice(text, 0, k)) = n }
    IN  IF Exact = {} THEN None ELSE <<CHOOSE k \in Exact : TRUE>>

\* C16: for every offset n >= 0 that the UTF-16 repair converts,
\* _utf16_offset_to_codepoint(text, n) is the index k whose prefix occupies
\* n UTF-16 code units, and None when n lies inside a surrogate pair, wherever
\* the pair is in the text, or past the end of the text.
C16_ConversionLandsOnBoundary ==
    output.handler = "fix_utf16_offsets" =>
        \A o \in ScannedSpans :
            LET content == _get_sections_map(job, o.before.section_index)
            IN  content # None =>
                  \A n \in {o.before.start_offset, o.before.end_offset} :
                      n >= 0 => _utf16_offset_to_codepoint(content[1], n)
                                  = ExactIndex(content[1], n)

\* The repair of a span cannot be verified: its section does not exist, the
\* conversion of its start or end fails, or the converted slice differs from
\* the stored text (UTF-16 repair); the trimmed slice differs from the
\* stripped text or the section does not exist (trim of a text with
\* whitespace at its ends).
Unverifiable(handler, span) ==
    LET content == _get_sections_map(job, span.section_index)
        new_start == _utf16_offset_to_codepoint(content[1], span.start_offset)
        new_end == _utf16_offset_to_codepoint(content[1], span.end_offset)
        result == _trim_whitespace(span.original_text, span.start_offset,
                                   span.end_offset)
    IN  IF handler = "fix_utf16_offsets"
        THEN \/ content = None
             \/ new_start = None
             \/ new_end = None
             \/ PySlice(content[1], new_start[1], new_end[1]) # span.original_text
        ELSE /\ result # None
             /\ result[4]
             /\ \/ content = None
                \/ PySlice(content[1], result[2], result[3]) # result[1]

\* C17: a span whose repair cannot be verified is counted as a verification
\* failure and its start offset, end offset and text stay as they were in
\* the store.
C17_UnverifiedSpanIsFlagged ==
    output.handler \in {"fix_utf16_offsets", "trim_annotation_whitespace"} =>
        \A o \in ScannedSpans :
            Unverifiable(output.handler, o.before) =>
                /\ o.outcome = "verification_failed"
                /\ o.after = o.before
                /\ InList(o.before, StoredSpans(o.store))

\* C18: every span the UTF-16 repair scans ends as already correct
\* ("unchanged"), corrected and verified ("fixed") or failed
\* ("verification_failed"), and it ends as already correct only if
\* section.content[start:end] equals its stored text.
C18_UnchangedMeansCorrect ==
    output.handler = "fix_utf16_offsets" =>
        \A o \in ScannedSpans :
            /\ o.outcome \in {"unchanged", "fixed", "verification_failed"}
            /\ o.outcome = "unchanged" =>
                 SliceMatches(job, o.before.section_index, o.before.start_offset,
                              o.before.end_offset, o.before.original_text)

\* C19: after a run of the whitespace-trim command that is not a dry run, no
\* span that the run scanned with a text of whitespace only is in its store
\* any more, in each of the three stores.
C19_WhitespaceSpanDropped ==
    (output.handler = "trim_annotation_whitespace" /\ ~output.dry_run) =>
        \A o \in ScannedSpans :
            strip(o.before.original_text) = "" =>
                /\ o.outcome = "all_whitespace"
                /\ ~InList(o.before, StoredSpans(o.store))
                /\ \A k \in 1..Len(StoredSpans(o.store)) :
                      strip(StoredSpans(o.store)[k].original_text) # ""

\* C20: a second run of a repair command over the spans its first run left
\* changes no span: after a run that is not a dry run, the next run of the
\* same command leaves the three stores as they are.
C20_SecondRunChangesNothing ==
    [][(/\ output.handler \in {"fix_utf16_offsets", "trim_annotation_whitespace"}
        /\ ~output.dry_run
        /\ output'.handler = output.handler)
           => /\ annotations' = annotations
              /\ draft' = draft
              /\ qa_draft' = qa_draft]_vars

(***************************************************************************)
(* Properties of the reassembly.                                           *)
(***************************************************************************)
\* deidentify_and_reassemble has been called.
Called == output.handler = "deidentify_and_reassemble"

\* The spans of a list lie in the content and no two of them overlap
\* (spans that touch do not overlap).
Disjoint(content, anns) ==
    /\ \A i \in 1..Len(anns) :
          /\ 0 <= anns[i].start_offset
          /\ anns[i].start_offset <= anns[i].end_offset
          /\ anns[i].end_offset <= Len(content)
    /\ \A i, j \in 1..Len(anns) :
          i < j => \/ anns[i].end_offset <= anns[j].start_offset
                   \/ anns[j].end_offset <= anns[i].start_offset

\* The content read from pos on, each span replaced by its replacement
\* string and every other character kept (for spans that are not empty and
\* do not overlap).
RECURSIVE Redacted(_, _, _)
Redacted(content, anns, pos) ==
    IF pos >= Len(content) THEN ""
    ELSE LET starting == { i \in 1..Len(anns) : anns[i].start_offset = pos }
         IN  IF starting = {}
             THEN Char(content, pos + 1) \o Redacted(content, anns, pos + 1)
             ELSE LET ann == anns[CHOOSE i \in starting : TRUE]
                  IN  TagOf(ann) \o Redacted(content, anns, ann.end_offset)

\* The list in the opposite order.
Reversed(anns) == [i \in 1..Len(anns) |-> anns[Len(anns) + 1 - i]]

\* The spans given for the section at position k of the section list.
SpansOf(k) ==
    SelectSeq(latest_version[1],
              LAMBDA a : a.section_index = sections[1][k].index)

\* Two spans of one section that touch have been replaced.
C23_Witness ==
    /\ Called
    /\ \E k \in 1..Len(sections[1]) :
          /\ Len(SpansOf(k)) = 2
          /\ SpansOf(k)[1].start_offset < SpansOf(k)[1].end_offset
          /\ SpansOf(k)[1].end_offset = SpansOf(k)[2].start_offset
          /\ SpansOf(k)[2].start_offset < SpansOf(k)[2].end_offset
          /\ output.replaced[k] # sections[1][k].content

\* C23: for spans with 0 <= start < end <= len(content) of which no two
\* overlap (they may touch), _apply_replacements returns the content with
\* each span replaced by its tag, or by "[class_name]" when the tag is empty,
\* and every other character kept in its order, whatever the order of the
\* list.
C23_DisjointSpansReplaced ==
    Called =>
        \A k \in 1..Len(sections[1]) :
            (/\ Disjoint(sections[1][k].content, SpansOf(k))
             /\ \A i \in 1..Len(SpansOf(k)) :
                   SpansOf(k)[i].start_offset < SpansOf(k)[i].end_offset)
                => /\ output.replaced[k] = Redacted(sections[1][k].content, SpansOf(k), 0)
                   /\ _apply_replacements(sections[1][k].content, Reversed(SpansOf(k)))
                        = output.replaced[k]

\* C23 as stated: the same for spans with start <= end: the result holds the
\* replacement string of every span and as many characters as the content
\* has outside the spans, and it is the same for the list in the opposite
\* order.
C23_SpansReplacedInAnyOrder ==
    Called =>
        \A k \in 1..Len(sections[1]) :
            Disjoint(sections[1][k].content, SpansOf(k))
                => /\ \A i \in 1..Len(SpansOf(k)) :
                         contains(output.replaced[k], TagOf(SpansOf(k)[i]))
                   /\ _apply_replacements(sections[1][k].content, Reversed(SpansOf(k)))
                        = output.replaced[k]

\* The characters of a text that occur in no replacement string.
RECURSIVE Foreign(_)
Foreign(text) ==
    IF text = "" THEN ""
    ELSE (IF \E tag \in {"[email]", "[greeting]"} : contains(tag, Char(text, 1))
          THEN "" ELSE Char(text, 1))
         \o Foreign(PySlice(text, 1, Len(text)))

\* The characters of a content that no span of a list covers, in order.
RECURSIVE Uncovered(_, _, _)
Uncovered(content, anns, pos) ==
    IF pos >= Len(content) THEN ""
    ELSE (IF \E i \in 1..Len(anns) :
                anns[i].start_offset <= pos /\ pos < anns[i].end_offset
          THEN "" ELSE Char(content, pos + 1))
         \o Uncovered(content, anns, pos + 1)

\* C24: for any list of spans of a section that are not empty, overlapping
\* and nested spans included, the result of the replacement holds no character of the content
\* that a span covers and every character that no span covers: without the
\* characters that occur in replacement strings, the result is the uncovered
\* part of the content.
C24_CoveredTextRemoved ==
    Called =>
        \A k \in 1..Len(sections[1]) :
            (\A i \in 1..Len(SpansOf(k)) :
                /\ 0 <= SpansOf(k)[i].start_offset
                /\ SpansOf(k)[i].start_offset < SpansOf(k)[i].end_offset
                /\ SpansOf(k)[i].end_offset <= Len(sections[1][k].content))
              => Foreign(output.replaced[k])
                   = Foreign(Uncovered(sections[1][k].content, SpansOf(k), 0))

\* The text leaves of a parsed message: their positions in the tree.
RECURSIVE TextLeafPaths(_, _)
TextLeafPaths(msg, path) ==
    IF is_multipart(msg)
    THEN UNION { TextLeafPaths(msg.payload[i], Append(path, i - 1)) :
                   i \in 1..Len(msg.payload) }
    ELSE IF startswith(get_content_type(msg), "text/") THEN {path} ELSE {}

\* The positions in the section list of the sections with a mime_path.
SectionsAt(path) ==
    { k \in 1..Len(sections[1]) :
        sections[1][k].section_type # "HEADERS" /\ sections[1][k].mime_path = path }

\* The content that extraction finds in a leaf.
ContentOf(leaf) == _walk_parts(leaf, << >>, << >>)[1].content

\* A multipart message was reassembled with a section list that lacks the
\* section of a text leaf, and with a span in a section that it holds.
C22_Witness ==
    /\ Called
    /\ is_multipart(message_from_string(eml_content))
    /\ \E path \in TextLeafPaths(message_from_string(eml_content), << >>) :
          SectionsAt(path) = {}
    /\ \E k \in 1..Len(sections[1]) : output.replaced[k] # sections[1][k].content

\* C22: when a multipart message is reassembled, a text leaf for which the
\* section list holds no section with its mime_path keeps its payload and
\* its headers; every other text leaf carries the replaced content of its
\* section; the tree keeps its structure and the call returns.
C22_LeafWithoutSectionPassesThrough ==
    (Called /\ is_multipart(message_from_string(eml_content))) =>
        LET Passed(msg) ==
                /\ \A path \in TextLeafPaths(msg, << >>) :
                      IF SectionsAt(path) = {}
                      THEN PartAt(output.walked, path) = PartAt(msg, path)
                      ELSE \A k \in SectionsAt(path) :
                              ContentOf(PartAt(output.walked, path)) = output.replaced[k]
                /\ SameTree(msg, output.walked)
                /\ exported[1].raises = ""
                /\ SameTree(msg, message_from_string(exported[1].text))
        IN  Passed(message_from_string(eml_content))

\* A message with two text leaves was reassembled with its sections and
\* with a span in the section of the second leaf.
C26_Witness ==
    /\ Called
    /\ Len(sections[1]) = 3
    /\ sections[1] = extract_sections(eml_content)
    /\ Len(SpansOf(3)) > 0
    /\ output.replaced[3] # sections[1][3].content
    /\ exported[1].raises = ""

\* C26: the body sections of a message have pairwise distinct mime_paths,
\* and reassembly with these sections pairs each of them with the leaf it
\* was extracted from (the root for a message that is not multipart): the
\* output holds as many body sections, the section at each position decodes
\* to the content of the original section with the spans of that section
\* replaced, and to the content as it was when the section has no span.
C26_SectionsPairedWithTheirLeaves ==
    LET Paired(original, reassembled) ==
            /\ \A i, j \in 2..Len(original) :
                  i # j => original[i].mime_path # original[j].mime_path
            /\ (Called /\ sections[1] = original) =>
                  /\ exported[1].raises = ""
                  /\ Len(reassembled) = Len(original)
                  /\ \A k \in 2..Len(original) :
                        /\ k <= Len(reassembled) =>
                              /\ reassembled[k].mime_path = original[k].mime_path
                              /\ reassembled[k].content = output.replaced[k]
                        /\ LET spans == SelectSeq(latest_version[1],
                                            LAMBDA a : a.section_index = k - 1)
                           IN  (/\ Disjoint(original[k].content, spans)
                                /\ \A i \in 1..Len(spans) :
                                      spans[i].start_offset < spans[i].end_offset)
                                 => output.replaced[k]
                                      = Redacted(original[k].content, spans, 0)
    IN  Paired(extract_sections(eml_content),
               IF Called /\ exported[1].raises = ""
               THEN extract_sections(exported[1].text) ELSE << >>)

\* C25: header de-identification changes only the annotated spans: when a
\* header field is folded and its first line holds an annotation, every
\* continuation line that holds no annotation is in the header block of the
\* output as it was.
C25_UnannotatedContinuationLinesKept ==
    (Reassembled /\ exported[1].raises = "") =>
        LET Kept(content, anns, result) ==
                \A k \in 1..Len(HeaderLines(content)) :
                    (/\ IsContinuationLine(HeaderLines(content)[k])
                     /\ \A i \in 1..Len(anns) :
                           /\ LineOf(content, anns[i].start_offset) # k
                           /\ LineOf(content, anns[i].end_offset) # k)
                      => contains(result, HeaderLines(content)[k])
        IN  Kept(extract_sections(eml_content)[1].content,
                 SelectSeq(latest_version[1], LAMBDA a : a.section_index = 0),
                 extract_sections(exported[1].text)[1].content)

(***************************************************************************)
(* Properties of the offset map.                                           *)
(***************************************************************************)
\* map_fn has answered for an offset of a message with encoded parts.
Mapped == output.handler = "map_fn" /\ exported # None /\ exported[1].events # << >>

\* C27: the offset map is monotonic non-decreasing: an offset maps to at
\* most what each later offset maps to, inside events and across their
\* borders.
C27_OffsetMapMonotonic ==
    Mapped =>
        \A b \in output.raw_offset..Len(replace(eml_content, "\r", "")) :
            output.value <= map_fn(exported[1].events, 1, b, 0)

\* The length an event takes from the text, and the sum of it over the
\* events that end at or before an offset.
Reduction(event) ==
    (event.end - event.start)
      - (IF event.type = "cte" THEN event.replacement_len ELSE event.decoded_stripped_len)

RECURSIVE Consumed(_, _)
Consumed(events, offset) ==
    IF events = << >> THEN 0
    ELSE (IF Head(events).end <= offset THEN Reduction(Head(events)) ELSE 0)
         + Consumed(Tail(events), offset)

\* C28: an offset before the first event maps to itself; an offset in a
\* replaced Content-Transfer-Encoding token, its end excluded, maps to the
\* start of the token in normalized coordinates; an offset outside every
\* event maps to the offset less the reductions of the events that end at or
\* before it.
C28_OffsetMapValues ==
    Mapped =>
        LET Values(events, offset) ==
                /\ offset < events[1].start => output.value = offset
                /\ \A k \in 1..Len(events) :
                      (/\ events[k].type = "cte"
                       /\ events[k].start <= offset
                       /\ offset < events[k].end)
                        => output.value
                             = events[k].start - Consumed(events, events[k].start)
                /\ (\A k \in 1..Len(events) :
                       offset < events[k].start \/ events[k].end <= offset)
                        => output.value = offset - Consumed(events, offset)
        IN  Values(exported[1].events, output.raw_offset)

\* The text that the quoted-printable data decodes to.
QpDecoded(body, charset) == decode(decodestring(encode(body, "ascii")), charset)

\* C29: the table of _build_qp_offset_table has len(body) + 1 entries,
\* starts at 0, never decreases and rises by at most 1 between neighbours,
\* and the raw characters of the hex triplets that form one multi-byte
\* character all map to the index of that character in the decoded text.
C29_QpTableWellFormed ==
    output.handler = "_build_qp_offset_table" =>
        LET WellFormed(body, charset, table) ==
                /\ Len(table) = Len(body) + 1
                /\ table[1] = 0
                /\ \A i \in 1..Len(body) : table[i] <= table[i + 1] /\ table[i + 1] <= table[i] + 1
                /\ \A i \in 0..(Len(body) - 6) :
                      (/\ PySlice(body, i, i + 6) = "=C3=A9"
                       /\ QpDecoded(PySlice(body, 0, i + 6), charset)
                            = QpDecoded(PySlice(body, 0, i), charset) \o EAcute)
                        => \A j \in i..(i + 5) :
                              table[j + 1] = Len(QpDecoded(PySlice(body, 0, i), charset))
        IN  WellFormed(eml_content, sections[1], output.table)

(***************************************************************************)
(* Properties of the migration to sections.                                *)
(***************************************************************************)
\* C30: after the migration every span in the annotation records, the draft
\* and the QA draft either has a section whose content, sliced at the span's
\* offsets, is the span's text, or is stored with section index -1; this
\* also when every span of a draft fails to map.
C30_MigratedOrMarked ==
    output.handler = "migrate_annotations_forward" =>
        LET Settled(span, secs) ==
                /\ "section_index" \in DOMAIN span
                /\ \/ span.section_index = -1
                   \/ \E k \in 1..Len(secs) :
                         /\ secs[k].index = span.section_index
                         /\ PySlice(secs[k].content, span.start_offset, span.end_offset)
                              = span.original_text
                         /\ span.start_offset >= 0
                         /\ span.end_offset <= Len(secs[k].content)
            All(secs) ==
                /\ \A i \in 1..Len(annotations) : Settled(annotations[i], secs)
                /\ \A i \in 1..Len(draft) : Settled(draft[i], secs)
                /\ \A i \in 1..Len(qa_draft) : Settled(qa_draft[i], secs)
        IN  All(extract_sections(eml_content))

(***************************************************************************)
(* Properties of the commands over a corpus.                               *)
(***************************************************************************)
BatchCommands ==
    {"fix_utf16_offsets", "trim_annotation_whitespace", "verify_annotation_offsets"}

\* C21: a run of a batch command is not aborted by a failure confined to
\* one document (extract_sections raising, a span naming a missing section,
\* a draft entry with unusable offsets): the run reaches its summary, every
\* draft and QA draft of the corpus was reached, and every entry that was
\* scanned has an outcome other than an exception.
C21_FailureDoesNotAbortRun ==
    output.handler \in BatchCommands =>
        /\ output.summary
        /\ \A d \in 1..Len(job) :
              /\ output.drafts[d].reached /\ output.qa_drafts[d].reached
              /\ \A i \in 1..Len(output.drafts[d].outcomes) :
                    output.drafts[d].outcomes[i].outcome # "TypeError"
              /\ \A i \in 1..Len(output.qa_drafts[d].outcomes) :
                    output.qa_drafts[d].outcomes[i].outcome # "TypeError"

====
